---- MODULE Spec2Model ----
(***************************************************************************)
(* Verification model of ch57x-keyboard-tool: the layout renderer          *)
(* (config.rs), the key identity mappers and the per-family protocol       *)
(* encoders (keyboard.rs, keyboard/k8890.rs, keyboard/k884x.rs) and the    *)
(* upload loop of main.rs.                                                 *)
(***************************************************************************)
EXTENDS Integers, Sequences, FiniteSets, TLC

VARIABLES
    command,    \* options.command: "Validate" | "Upload" | "none"
    config,     \* the Config read from the mapping file
    family,     \* the encoder selected by open_keyboard
    kbd,        \* Keyboard884x { buttons, knobs }
    pc,         \* position of main / of the driver of a pure function
    layers,     \* Vec<FlatLayer> returned by Config::render
    err,        \* the error the run failed with ("" when none)
    next,       \* index of the next binding of the upload loop
    output,     \* the bytes emitted so far (output: Vec<u8> / device writes)
    call,       \* the last bind_key call and its result
    ncalls,     \* number of bind_key calls made so far
    grid,       \* arguments of reorient_grid
    flat,       \* result of reorient_grid
    back,       \* result of the inverse reorient_grid applied to flat
    input,      \* the text given to from_str
    parsed,     \* the result of from_str
    reparsed    \* the text a parsed value is displayed as, parsed again

vars == <<command, config, family, kbd, pc, layers, err, next, output, call,
          ncalls, grid, flat, back,
         input, parsed, reparsed>>

(***************************************************************************)
(* Bounds of the model.                                                    *)
(***************************************************************************)
MaxPresses == 19
MaxCalls == 2
MaxDim == 3
MaxRows == 2
MaxCols == 3
MaxKnobs == 2
MaxLayers == 2
MaxFragments == 3

(***************************************************************************)
(* Bytes.                                                                  *)
(***************************************************************************)
RECURSIVE Pow2(_)
Pow2(n) == IF n = 0 THEN 1 ELSE 2 * Pow2(n - 1)

\* a conversion that drops the sign instead of wrapping
AsU8Magnitude(x) == (IF x < 0 THEN 0 - x ELSE x) % 256

\* x as u8
AsU8(x) == x % 256

\* x << n on u8: the bits shifted out are lost
Shl8(x, n) == (x * Pow2(n)) % 256

Bit(x, i) == (x \div Pow2(i)) % 2

RECURSIVE BitOrFrom(_, _, _)
BitOrFrom(a, b, i) ==
    IF i > 7 THEN 0
    ELSE (IF Bit(a, i) = 1 \/ Bit(b, i) = 1 THEN Pow2(i) ELSE 0)
         + BitOrFrom(a, b, i + 1)

\* a | b on u8
BitOr8(a, b) == BitOrFrom(a, b, 0)

RECURSIVE Zeros(_)
Zeros(n) == IF n <= 0 THEN <<>> ELSE <<0>> \o Zeros(n - 1)

(***************************************************************************)
(* Data model: modifiers, codes, accords, macros, keys.                    *)
(***************************************************************************)
Modifier ==
    <<"Ctrl", "Shift", "Alt", "Win",
      "RightCtrl", "RightShift", "RightAlt", "RightWin">>

\* EnumSet<Modifier>::as_u8: bit i is the i-th variant of the enum
RECURSIVE ModifiersFrom(_, _)
ModifiersFrom(mods, i) ==
    IF i > Len(Modifier) THEN 0
    ELSE (IF Modifier[i] \in mods THEN Pow2(i - 1) ELSE 0)
         + ModifiersFrom(mods, i + 1)

ModifiersAsU8(mods) == ModifiersFrom(mods, 1)

MouseButton == <<"Left", "Right", "Middle">>

RECURSIVE ButtonsFrom(_, _)
ButtonsFrom(buttons, i) ==
    IF i > Len(MouseButton) THEN 0
    ELSE (IF MouseButton[i] \in buttons THEN Pow2(i - 1) ELSE 0)
         + ButtonsFrom(buttons, i + 1)

\* EnumSet<MouseButton>::as_u8
ButtonsAsU8(buttons) == ButtonsFrom(buttons, 1)

\* modifier.map_or(0, |m| m as u8)
MouseModifierAsU8(modifier) ==
    CASE modifier = "Ctrl" -> 1
      [] modifier = "Shift" -> 2
      [] modifier = "Alt" -> 4
      [] OTHER -> 0

NoCode == [tag |-> "None", v |-> 0]
WellKnown(v) == [tag |-> "WellKnown", v |-> v]
Custom(v) == [tag |-> "Custom", v |-> v]

\* Code::value
CodeValue(code) == code.v

\* code.map_or(0, |c| c.value())
CodeByte(code) == IF code.tag = "None" THEN 0 ELSE CodeValue(code)

\* KeyboardPart::Key(Accord { modifiers, code })
KeyPart(mods, code) ==
    [type |-> "Key", modifiers |-> mods, code |-> code, ms |-> 0]

\* KeyboardPart::Delay(ms)
DelayPart(ms) ==
    [type |-> "Delay", modifiers |-> {}, code |-> NoCode, ms |-> ms]

MacroKeyboard(parts) == [kind |-> "Keyboard", parts |-> parts]
MacroMedia(code) == [kind |-> "Media", code |-> code]
MacroMouse(action, modifier) ==
    [kind |-> "Mouse", action |-> action, modifier |-> modifier]

Click(buttons) == [type |-> "Click", buttons |-> buttons, dx |-> 0, dy |-> 0]
Move(dx, dy) == [type |-> "Move", buttons |-> {}, dx |-> dx, dy |-> dy]
Drag(buttons, dx, dy) ==
    [type |-> "Drag", buttons |-> buttons, dx |-> dx, dy |-> dy]
Scroll(delta) == [type |-> "Scroll", buttons |-> {}, dx |-> delta, dy |-> 0]
Wheel(delta) == [type |-> "Wheel", buttons |-> {}, dx |-> delta, dy |-> 0]
WheelUp == [type |-> "WheelUp", buttons |-> {}, dx |-> 0, dy |-> 0]
WheelDown == [type |-> "WheelDown", buttons |-> {}, dx |-> 0, dy |-> 0]

\* Macro::kind
MacroKind(expansion) ==
    CASE expansion.kind = "Keyboard" -> 1
      [] expansion.kind = "Media" -> 2
      [] expansion.kind = "Mouse" -> 3

RotateCCW == 0
Press == 1
RotateCW == 2

Button(n) == [type |-> "Button", n |-> n, action |-> 0]
Knob(n, action) == [type |-> "Knob", n |-> n, action |-> action]

IdOk(id) == [ok |-> TRUE, id |-> id, err |-> ""]
IdErr(e) == [ok |-> FALSE, id |-> 0, err |-> e]

(***************************************************************************)
(* Key identity mappers.                                                   *)
(***************************************************************************)
BASE == 12

\* to_key_id whose knob ids start at BASE: knob 0 ccw shares the id of the
\* last button
ToKeyId8890KnobsFromBase(key) ==
    CASE key.type = "Button" /\ key.n >= BASE -> IdErr("invalid key index")
      [] key.type = "Button" /\ key.n < BASE -> IdOk(key.n + 1)
      [] key.type = "Knob" /\ key.n >= 3 -> IdErr("invalid knob index")
      [] key.type = "Knob" /\ key.n < 3 ->
            IdOk(BASE + 3 * key.n + key.action)

\* Keyboard8890::to_key_id
ToKeyId8890(key) ==
    CASE key.type = "Button" /\ key.n >= BASE -> IdErr("invalid key index")
      [] key.type = "Button" /\ key.n < BASE -> IdOk(key.n + 1)
      [] key.type = "Knob" /\ key.n >= 3 -> IdErr("invalid knob index")
      [] key.type = "Knob" /\ key.n < 3 ->
            IdOk(BASE + 1 + 3 * key.n + key.action)

\* Key::to_key_id of keyboard.rs
KeyToKeyId(key) ==
    CASE key.type = "Button" /\ key.n >= 12 -> IdErr("invalid key index")
      [] key.type = "Button" /\ key.n < 12 -> IdOk(key.n + 1)
      [] key.type = "Knob" /\ key.n >= 3 -> IdErr("invalid knob index")
      [] key.type = "Knob" /\ key.n < 3 -> IdOk(13 + 3 * key.n + key.action)

MAX_NUMBER_OF_BUTTONS == 15

\* Keyboard884x::new accepts (buttons, knobs)
New884xOk(buttons, knobs) ==
    (buttons <= 15 /\ knobs <= 3) \/ (buttons <= 12 /\ knobs <= 4)

\* Keyboard884x::to_key_id; the arms are tried in the order of the match
ToKeyId884x(self, key) ==
    IF key.type = "Button" /\ key.n >= MAX_NUMBER_OF_BUTTONS
    THEN IdErr("invalid key index")
    ELSE IF key.type = "Button" /\ key.n >= 12 /\ self.knobs = 4
    THEN IdErr("invalid key index")
    ELSE IF key.type = "Knob" /\ key.n = 4 /\ self.buttons <= 12
    THEN IdOk(13 + key.action)
    ELSE IF key.type = "Button"
    THEN IdOk(key.n + 1)
    ELSE IF key.n >= 3
    THEN IdErr("invalid knob index")
    ELSE IdOk(MAX_NUMBER_OF_BUTTONS + 1 + 3 * key.n + key.action)

(***************************************************************************)
(* Packets.                                                                *)
(***************************************************************************)
PacketSize == 64

\* send_message(output, msg): msg copied into a zeroed fixed-size buffer,
\* the buffer appended to output
SendMessage(out, msg) == out \o msg \o Zeros(PacketSize - Len(msg))

\* Keyboard::send of keyboard.rs: buf[0] = 0x03 (set by new), buf[1..9] = pkt
Send(out, pkt) == out \o <<3>> \o pkt \o Zeros(PacketSize - 1 - Len(pkt))

BindOk(out) == [ok |-> TRUE, err |-> "", output |-> out]
BindErr(e, out) == [ok |-> FALSE, err |-> e, output |-> out]

\* code as u16, to_le_bytes
\* the low byte of a conversion that saturates instead of truncating
LowByteSaturating(code) == IF code > 255 THEN 255 ELSE code

LowByte(code) == code % 256
HighByte(code) == (code \div 256) % 256

(***************************************************************************)
(* Keyboard8890::bind_key (keyboard/k8890.rs).                             *)
(***************************************************************************)
\* ((layer+1) << 4) | kind, computed in u8
Header8890(layer, kind) == BitOr8(Shl8(layer + 1, 4), kind)

\* Items8890 without the empty key
Items8890NoPlaceholder(presses) ==
    [i \in 1..Len(presses) |->
        <<ModifiersAsU8(presses[i].modifiers), CodeByte(presses[i].code)>>]

\* the items of the loop: the empty key, then one pair per accord
Items8890(presses) ==
    <<(<<0, 0>>)>> \o
    [i \in 1..Len(presses) |->
        <<ModifiersAsU8(presses[i].modifiers), CodeByte(presses[i].code)>>]

RECURSIVE SendItems8890(_, _, _, _, _, _)
SendItems8890(out, id, header, len, items, i) ==
    IF i > Len(items) THEN out
    ELSE SendItems8890(
            SendMessage(out, <<3, id, header, len, AsU8(i - 1),
                               items[i][1], items[i][2], 0, 0>>),
            id, header, len, items, i + 1)

Payload8890(layer, id, expansion) ==
    LET action == expansion.action
        modifier == MouseModifierAsU8(expansion.modifier)
        header == Header8890(layer, 3)
    IN  CASE expansion.kind = "Media" ->
                <<3, id, Header8890(layer, 2), LowByte(expansion.code),
                  HighByte(expansion.code), 0, 0, 0, 0>>
          [] expansion.kind = "Mouse" /\ action.type = "Move" ->
                <<3, id, header, 0, AsU8(action.dx), AsU8(action.dy), 0,
                  modifier, 0>>
          [] expansion.kind = "Mouse" /\ action.type = "Drag" ->
                <<3, id, header, ButtonsAsU8(action.buttons),
                  AsU8(action.dx), AsU8(action.dy), 0, modifier, 0>>
          [] expansion.kind = "Mouse" /\ action.type = "Click" ->
                <<3, id, header, ButtonsAsU8(action.buttons), 0, 0, 0,
                  modifier, 0>>
          [] expansion.kind = "Mouse" /\ action.type = "Scroll" ->
                <<3, id, header, 0, 0, 0, AsU8(action.dx), modifier, 0>>

Finish8890(out) == SendMessage(out, <<3, 170, 170, 0, 0, 0, 0, 0, 0>>)

BindKey8890(layer, key, expansion, out) ==
    IF ~(layer <= 15) THEN BindErr("invalid layer index", out)
    ELSE
    LET started == SendMessage(out, <<3, 254, layer + 1, 1, 1, 0, 0, 0, 0>>)
        id == ToKeyId8890(key)
    IN  IF expansion.kind = "Keyboard"
        THEN IF ~(Len(expansion.parts) <= 5)
             THEN BindErr("macro sequence is too long", started)
             ELSE IF ~id.ok
             THEN BindErr(id.err, started)
             ELSE BindOk(Finish8890(
                    SendItems8890(started, id.id,
                                  Header8890(layer, MacroKind(expansion)),
                                  AsU8(Len(expansion.parts)),
                                  Items8890(expansion.parts), 1)))
        ELSE IF expansion.kind = "Mouse" /\ expansion.action.type = "Click"
                /\ expansion.action.buttons = {}
        THEN BindErr("buttons must be given for click macro", started)
        ELSE IF ~id.ok
        THEN BindErr(id.err, started)
        ELSE BindOk(Finish8890(
                SendMessage(started, Payload8890(layer, id.id, expansion))))

(***************************************************************************)
(* Keyboard884x::bind_key (keyboard/k884x.rs).                             *)
(***************************************************************************)
RECURSIVE Pairs884x(_, _)
Pairs884x(presses, i) ==
    IF i > Len(presses) THEN <<>>
    ELSE <<ModifiersAsU8(presses[i].modifiers), CodeByte(presses[i].code)>>
         \o Pairs884x(presses, i + 1)

\* Count884x without the arm for a lone modifier accord
Count884xPlain(presses) == AsU8(Len(presses))

\* the count byte pushed before the pairs
Count884x(presses) ==
    IF Len(presses) = 1 /\ presses[1].code.tag = "None"
    THEN 0
    ELSE AsU8(Len(presses))

Body884x(expansion) ==
    LET action == expansion.action
        modifier == MouseModifierAsU8(expansion.modifier)
    IN  CASE expansion.kind = "Keyboard" ->
                <<Count884x(expansion.parts)>> \o Pairs884x(expansion.parts, 1)
          [] expansion.kind = "Media" ->
                <<0, LowByte(expansion.code), HighByte(expansion.code),
                  0, 0, 0, 0>>
          [] expansion.kind = "Mouse" /\ action.type = "Move" ->
                <<5, modifier, 0, AsU8(action.dx), AsU8(action.dy)>>
          [] expansion.kind = "Mouse" /\ action.type = "Drag" ->
                <<5, modifier, ButtonsAsU8(action.buttons),
                  AsU8(action.dx), AsU8(action.dy)>>
          [] expansion.kind = "Mouse" /\ action.type = "Click" ->
                <<1, modifier, ButtonsAsU8(action.buttons)>>
          [] expansion.kind = "Mouse" /\ action.type = "Wheel" ->
                <<3, modifier, 0, 0, 0, AsU8(action.dx)>>

BindKey884x(self, layer, key, expansion, out) ==
    LET id == ToKeyId884x(self, key) IN
    IF ~(layer <= 15) THEN BindErr("invalid layer index", out)
    ELSE IF ~id.ok THEN BindErr(id.err, out)
    ELSE IF expansion.kind = "Keyboard" /\ ~(Len(expansion.parts) <= 18)
    THEN BindErr("macro sequence is too long", out)
    ELSE IF expansion.kind = "Mouse" /\ expansion.action.type = "Click"
            /\ expansion.action.buttons = {}
    THEN BindErr("buttons must be given for click macro", out)
    ELSE BindOk(
            SendMessage(
                SendMessage(out,
                    <<3, 254, id.id, layer + 1, MacroKind(expansion),
                      0, 0, 0, 0, 0>> \o Body884x(expansion)),
                <<3, 253, 254, 255>>))

(***************************************************************************)
(* Keyboard::bind_key (keyboard.rs): every packet is written to the device *)
(* as it is produced.                                                      *)
(***************************************************************************)
HeaderLegacy(layer, kind) == BitOr8(Shl8(layer + 1, 4), kind)

\* the items of the loop: the empty key, then one pair per accord
ItemsLegacy(presses) ==
    <<(<<0, 0>>)>> \o
    [i \in 1..Len(presses) |->
        <<ModifiersAsU8(presses[i].modifiers), CodeByte(presses[i].code)>>]

RECURSIVE SendItemsLegacy(_, _, _, _, _, _)
SendItemsLegacy(out, id, header, len, items, i) ==
    IF i > Len(items) THEN out
    ELSE SendItemsLegacy(
            Send(out, <<id, header, len, AsU8(i - 1),
                        items[i][1], items[i][2], 0, 0>>),
            id, header, len, items, i + 1)

PayloadLegacy(layer, id, expansion) ==
    LET action == expansion.action
        modifier == MouseModifierAsU8(expansion.modifier)
        header == HeaderLegacy(layer, 3)
    IN  CASE expansion.kind = "Media" ->
                <<id, HeaderLegacy(layer, 2), LowByte(expansion.code),
                  HighByte(expansion.code), 0, 0, 0, 0>>
          [] expansion.kind = "Mouse" /\ action.type = "Click" ->
                <<id, header, ButtonsAsU8(action.buttons), 0, 0, 0,
                  modifier, 0>>
          [] expansion.kind = "Mouse" /\ action.type = "WheelUp" ->
                <<id, header, 0, 0, 0, 1, modifier, 0>>
          [] expansion.kind = "Mouse" /\ action.type = "WheelDown" ->
                <<id, header, 0, 0, 0, 255, modifier, 0>>

BindKeyLegacy(layer, key, expansion, out) ==
    IF ~(layer <= 15) THEN BindErr("invalid layer index", out)
    ELSE
    LET started == Send(out, <<161, layer + 1, 0, 0, 0, 0, 0, 0>>)
        id == KeyToKeyId(key)
    IN  IF expansion.kind = "Keyboard"
        THEN IF ~(Len(expansion.parts) <= 5)
             THEN BindErr("macro sequence is too long", started)
             ELSE IF ~id.ok
             THEN BindErr(id.err, started)
             ELSE BindOk(Send(
                    SendItemsLegacy(started, id.id,
                                    HeaderLegacy(layer, MacroKind(expansion)),
                                    AsU8(Len(expansion.parts)),
                                    ItemsLegacy(expansion.parts), 1),
                    <<170, 170, 0, 0, 0, 0, 0, 0>>))
        ELSE IF expansion.kind = "Mouse" /\ expansion.action.type = "Click"
                /\ expansion.action.buttons = {}
        THEN BindErr("buttons must be given for click macro", started)
        ELSE IF ~id.ok
        THEN BindErr(id.err, started)
        ELSE BindOk(Send(Send(started, PayloadLegacy(layer, id.id, expansion)),
                         <<170, 170, 0, 0, 0, 0, 0, 0>>))

(***************************************************************************)
(* Keyboard8840 (k8840.rs): one message per binding, sent by the trait's   *)
(* send.                                                                   *)
(***************************************************************************)
\* Keyboard::send of mod.rs: the message in a zeroed buffer of 64 bytes
TraitSend(out, msg) == out \o msg \o Zeros(PacketSize - Len(msg))

\* Key::to_key_id(base) of mod.rs
ToKeyIdBase(key, base) ==
    CASE key.type = "Button" /\ key.n >= base -> IdErr("invalid key index")
      [] key.type = "Button" /\ key.n < base -> IdOk(AsU8(key.n + 1))
      [] key.type = "Knob" /\ key.n >= 3 -> IdErr("invalid knob index")
      [] key.type = "Knob" /\ key.n < 3 ->
            IdOk(AsU8(base + 1 + 3 * key.n + key.action))

\* key.to_key_id_16(): to_key_id with the 16 buttons of the 884x boards
ToKeyId16(key) == ToKeyIdBase(key, 16)

RECURSIVE Pairs8840(_, _)
Pairs8840(presses, i) ==
    IF i > Len(presses) THEN <<>>
    ELSE <<ModifiersAsU8(presses[i].modifiers), CodeByte(presses[i].code)>>
         \o Pairs8840(presses, i + 1)

Body8840(expansion) ==
    LET action == expansion.action
        modifier == MouseModifierAsU8(expansion.modifier)
    IN  CASE expansion.kind = "Keyboard" ->
                <<AsU8(Len(expansion.parts))>> \o Pairs8840(expansion.parts, 1)
          [] expansion.kind = "Media" ->
                <<0, LowByte(expansion.code), HighByte(expansion.code),
                  0, 0, 0, 0>>
          [] expansion.kind = "Mouse" /\ action.type = "Click" ->
                <<1, 0, ButtonsAsU8(action.buttons)>>
          [] expansion.kind = "Mouse" /\ action.type = "WheelUp" ->
                <<3, modifier, 0, 0, 0, 1>>
          [] expansion.kind = "Mouse" /\ action.type = "WheelDown" ->
                <<3, modifier, 0, 0, 0, 255>>

\* bind_key of Keyboard8840 with the layer bound off by one: 16 passes
BindKey8840UpTo16(layer, key, expansion, out) ==
    LET id == ToKeyId16(key)
    IN  IF ~(layer <= 16) THEN BindErr("invalid layer index", out)
        ELSE IF ~id.ok THEN BindErr(id.err, out)
        ELSE IF expansion.kind = "Keyboard" /\ ~(Len(expansion.parts) <= 5)
        THEN BindErr("macro sequence is too long", out)
        ELSE IF expansion.kind = "Mouse" /\ expansion.action.type = "Click"
                /\ expansion.action.buttons = {}
        THEN BindErr("buttons must be given for click macro", out)
        ELSE BindOk(TraitSend(out,
                <<3, 254, id.id, layer + 1, MacroKind(expansion),
                  0, 0, 0, 0, 0>> \o Body8840(expansion)))

BindKey8840(layer, key, expansion, out) ==
    LET id == ToKeyId16(key)
    IN  IF ~(layer <= 15) THEN BindErr("invalid layer index", out)
        ELSE IF ~id.ok THEN BindErr(id.err, out)
        ELSE IF expansion.kind = "Keyboard" /\ ~(Len(expansion.parts) <= 5)
        THEN BindErr("macro sequence is too long", out)
        ELSE IF expansion.kind = "Mouse" /\ expansion.action.type = "Click"
                /\ expansion.action.buttons = {}
        THEN BindErr("buttons must be given for click macro", out)
        ELSE BindOk(TraitSend(out,
                <<3, 254, id.id, layer + 1, MacroKind(expansion),
                  0, 0, 0, 0, 0>> \o Body8840(expansion)))

(***************************************************************************)
(* Keyboard8850_4x4 (k8850_4x4.rs): modifiers and codes are entries of one *)
(* key sequence.                                                           *)
(***************************************************************************)
\* get_modifier_code: 0xf1.. in the order of the enum
RECURSIVE ModifierCodes8850(_, _)
ModifierCodes8850(mods, i) ==
    IF i > Len(Modifier) THEN <<>>
    ELSE (IF Modifier[i] \in mods THEN <<240 + i>> ELSE <<>>)
         \o ModifierCodes8850(mods, i + 1)

\* get_mouse_modifier_code under modifier.map_or(0, ..)
MouseModifierCode8850(modifier) ==
    CASE modifier = "Ctrl" -> 241
      [] modifier = "Shift" -> 242
      [] modifier = "Alt" -> 243
      [] OTHER -> 0

RECURSIVE KeySequence8850CodesOnly(_, _)
\* key_sequence without the entries of the modifiers
KeySequence8850CodesOnly(presses, i) ==
    IF i > Len(presses) THEN <<>>
    ELSE <<CodeByte(presses[i].code)>>
         \o KeySequence8850CodesOnly(presses, i + 1)

RECURSIVE KeySequence8850(_, _)
\* key_sequence: per accord one entry per modifier, then one for the code
KeySequence8850(presses, i) ==
    IF i > Len(presses) THEN <<>>
    ELSE ModifierCodes8850(presses[i].modifiers, 1)
         \o <<CodeByte(presses[i].code)>>
         \o KeySequence8850(presses, i + 1)

RECURSIVE Triples8850(_, _)
\* each entry is written as [0, 0, code]
Triples8850(codes, i) ==
    IF i > Len(codes) THEN <<>>
    ELSE <<0, 0, codes[i]>> \o Triples8850(codes, i + 1)

Body8850(expansion) ==
    LET action == expansion.action
        modifier == MouseModifierCode8850(expansion.modifier)
    IN  CASE expansion.kind = "Keyboard" ->
                LET key_sequence == KeySequence8850(expansion.parts, 1)
                IN  <<0, AsU8(Len(key_sequence))>>
                    \o Triples8850(key_sequence, 1)
          [] expansion.kind = "Media" ->
                <<0, 2, 0, 0, LowByte(expansion.code), 0, 0,
                  HighByte(expansion.code)>>
          [] expansion.kind = "Mouse" /\ action.type = "Click" ->
                <<1, 4, 0, 0, modifier, 0, 0, ButtonsAsU8(action.buttons)>>
          [] expansion.kind = "Mouse" /\ action.type = "WheelUp" ->
                <<1, 4, 0, 0, modifier, 0, 0, 0, 0, 0, 0, 0, 0, 0, 0, 0, 1>>
          [] expansion.kind = "Mouse" /\ action.type = "WheelDown" ->
                <<1, 4, 0, 0, modifier, 0, 0, 0, 0, 0, 0, 0, 0, 0, 0, 0, 255>>

BindKey8850(layer, key, expansion, out) ==
    LET id == ToKeyIdBase(key, 16)
    IN  IF ~(layer <= 15) THEN BindErr("invalid layer index", out)
        ELSE IF ~id.ok THEN BindErr(id.err, out)
        ELSE IF expansion.kind = "Keyboard"
                /\ ~(Len(KeySequence8850(expansion.parts, 1)) <= 18)
        THEN BindErr("macro sequence is too long", out)
        ELSE IF expansion.kind = "Mouse" /\ expansion.action.type = "Click"
                /\ expansion.action.buttons = {}
        THEN BindErr("buttons must be given for click macro", out)
        ELSE BindOk(
                TraitSend(
                    TraitSend(out,
                        <<3, 253, id.id, layer + 1, MacroKind(expansion)>>
                        \o Body8850(expansion)),
                    <<3, 253, 254, 255>>))

(***************************************************************************)
(* Inputs of the encoders.                                                 *)
(***************************************************************************)
CtrlA == KeyPart({"Ctrl"}, WellKnown(4))
PlainA == KeyPart({}, WellKnown(4))
AltB == KeyPart({"Alt"}, WellKnown(5))
WinCtrl == KeyPart({"Win", "Ctrl"}, NoCode)
Custom110 == KeyPart({}, Custom(110))
RShiftF24 == KeyPart({"RightShift", "RightWin"}, WellKnown(115))

\* accords the parser can produce: modifiers, a code, or both
AccordPool == <<CtrlA, PlainA, AltB, WinCtrl, Custom110, RShiftF24>>

PressesOfLen(n, a) ==
    [i \in 1..n |-> AccordPool[((i - 1 + a) % Len(AccordPool)) + 1]]

KeyboardInputs ==
    {MacroKeyboard(PressesOfLen(n, a)) :
        n \in 0..MaxPresses, a \in 0..(Len(AccordPool) - 1)}

ShortKeyboardInputs ==
    {m \in KeyboardInputs : Len(m.parts) <= 1}

RotatedKeyboardInputs ==
    {MacroKeyboard(PressesOfLen(n, a)) : n \in 0..MaxPresses, a \in {0, 3}}

VolumeUp == 233
ACFormat == 572

\* media codes below, at and above the byte boundaries
MediaInputs ==
    {MacroMedia(code) : code \in {1, VolumeUp, 256, 386, 512, ACFormat}}

MouseInputs8890 ==
    {MacroMouse(Move(10, -5), "None"),
     MacroMouse(Move(127, -128), "Shift"),
     MacroMouse(Drag({"Left"}, 5, 10), "None"),
     MacroMouse(Drag({"Right", "Middle"}, -128, 127), "Ctrl"),
     MacroMouse(Drag({"Left"}, 200, -129), "None"),
     MacroMouse(Click({"Left"}), "None"),
     MacroMouse(Click({"Left", "Middle"}), "Ctrl"),
     MacroMouse(Scroll(3), "None"),
     MacroMouse(Scroll(-128), "None"),
     MacroMouse(Scroll(-1), "Alt")}

MouseInputs884x ==
    {MacroMouse(Move(10, -5), "None"),
     MacroMouse(Move(127, -128), "Shift"),
     MacroMouse(Drag({"Left"}, 5, 10), "None"),
     MacroMouse(Drag({"Right", "Middle"}, -128, 127), "Ctrl"),
     MacroMouse(Drag({"Left"}, 200, -129), "None"),
     MacroMouse(Click({"Left"}), "None"),
     MacroMouse(Click({"Left", "Middle"}), "Ctrl"),
     MacroMouse(Wheel(3), "None"),
     MacroMouse(Wheel(-128), "None"),
     MacroMouse(Wheel(-1), "Alt")}

\* the mouse actions of the encoders without Move and Drag
MouseInputsWheel ==
    {MacroMouse(Click({"Left"}), "None"),
     MacroMouse(Click({"Left", "Middle"}), "Ctrl"),
     MacroMouse(Click({}), "None"),
     MacroMouse(WheelUp, "None"),
     MacroMouse(WheelDown, "Shift")}

MouseInputs(f) ==
    CASE f = "8890" -> MouseInputs8890
      [] f = "884x" -> MouseInputs884x
      [] OTHER -> MouseInputsWheel

LayerInputs == (0..17) \cup {255}

KeyInputs ==
    {Button(n) : n \in (0..17) \cup {255}} \cup
    {Knob(n, a) : n \in (0..5) \cup {255},
                  a \in {RotateCCW, Press, RotateCW}}

FewKeys == {Button(0), Button(11), Knob(2, RotateCW)}

\* the first call of a run sweeps the layers, the keys and the macros
FirstInputs(f) ==
    (LayerInputs \X {Button(0), Button(12)} \X
        {MacroKeyboard(<<CtrlA>>), MacroMedia(VolumeUp)})
    \cup ({0} \X KeyInputs \X
        {MacroKeyboard(<<CtrlA>>), MacroMedia(VolumeUp)})
    \cup ({0, 15} \X FewKeys \X
        ((IF f \in {"8890", "884x", "8850"}
          THEN RotatedKeyboardInputs
          ELSE {MacroKeyboard(PressesOfLen(n, 0)) : n \in {5, 6}})
         \cup ShortKeyboardInputs \cup MediaInputs \cup MouseInputs(f)))

\* later calls of a run
LaterInputs(f) ==
    {<<0, Button(1), MacroKeyboard(<<PlainA>>)>>,
     <<0, Button(1), MacroKeyboard(PressesOfLen(6, 0))>>,
     <<16, Button(1), MacroKeyboard(<<PlainA>>)>>,
     <<0, Button(17), MacroMedia(VolumeUp)>>}

\* the (buttons, knobs) Keyboard884x::new is called with
Kbds == {[buttons |-> 12, knobs |-> 3], [buttons |-> 15, knobs |-> 3],
         [buttons |-> 12, knobs |-> 4], [buttons |-> 15, knobs |-> 4]}

NoKbd == [buttons |-> 0, knobs |-> 0]
NoConfig ==
    [orientation |-> "Normal", rows |-> 0, columns |-> 0, knobs |-> 0,
     layers |-> <<>>]
NoGrid == [orientation |-> "Normal", rows |-> 0, cols |-> 0, data |-> <<>>]
NoParse == [by |-> "", ok |-> FALSE, value |-> [kind |-> "None"],
            input |-> <<>>, code |-> ""]

NoReparse == [text |-> <<>>, result |-> NoParse]

NoCall ==
    [layer |-> 0, key |-> Button(0), macro |-> MacroKeyboard(<<>>),
     before |-> 0, ok |-> TRUE, err |-> "", made |-> FALSE]

(***************************************************************************)
(* The encoders driven call by call: every call appends to output.         *)
(***************************************************************************)
InitEncoder ==
    /\ input = <<>>
    /\ parsed = NoParse
    /\ reparsed = NoReparse
    /\ command = "none"
    /\ config = NoConfig
    /\ family \in {"8890", "884x", "8850", "8840", "Keyboard"}
    /\ kbd \in (IF family = "884x" THEN Kbds ELSE {NoKbd})
    /\ pc = IF family = "884x" THEN "new" ELSE "encode"
    /\ layers = <<>>
    /\ err = ""
    /\ next = 0
    /\ output = <<>>
    /\ call = NoCall
    /\ ncalls = 0
    /\ grid = NoGrid
    /\ flat = <<>>
    /\ back = <<>>

Called(layer, key, expansion, r) ==
    /\ output' = r.output
    /\ call' = [layer |-> layer, key |-> key, macro |-> expansion,
                before |-> Len(output), ok |-> r.ok, err |-> r.err,
                made |-> TRUE]
    /\ ncalls' = ncalls + 1
    /\ UNCHANGED <<reparsed, input, parsed, command, config, family, kbd, pc, layers, err, next,
                   grid, flat, back>>

CallInputs == IF ncalls = 0 THEN FirstInputs(family) ELSE LaterInputs(family)

\* Keyboard884x::new(buttons, knobs)
New884x ==
    /\ pc = "new"
    /\ pc' = IF New884xOk(kbd.buttons, kbd.knobs) THEN "encode" ELSE "failed"
    /\ err' = IF New884xOk(kbd.buttons, kbd.knobs) THEN ""
              ELSE "unsupported combination of buttons and knobs count"
    /\ UNCHANGED <<reparsed, input, parsed, command, config, family, kbd, layers, next, output, call,
                   ncalls, grid, flat, back>>

\* one call of Keyboard8890::bind_key
Bind8890 ==
    /\ pc = "encode"
    /\ family = "8890"
    /\ ncalls < MaxCalls
    /\ \E in \in CallInputs :
          Called(in[1], in[2], in[3],
                 BindKey8890(in[1], in[2], in[3], output))

\* one call of Keyboard884x::bind_key
Bind884x ==
    /\ pc = "encode"
    /\ family = "884x"
    /\ ncalls < MaxCalls
    /\ \E in \in CallInputs :
          Called(in[1], in[2], in[3],
                 BindKey884x(kbd, in[1], in[2], in[3], output))

\* one call of Keyboard8850_4x4::bind_key
Bind8850 ==
    /\ pc = "encode"
    /\ family = "8850"
    /\ ncalls < MaxCalls
    /\ \E in \in CallInputs :
          Called(in[1], in[2], in[3],
                 BindKey8850(in[1], in[2], in[3], output))

\* one call of Keyboard8840::bind_key
Bind8840 ==
    /\ pc = "encode"
    /\ family = "8840"
    /\ ncalls < MaxCalls
    /\ \E in \in CallInputs :
          Called(in[1], in[2], in[3],
                 BindKey8840(in[1], in[2], in[3], output))

\* one call of Keyboard::bind_key of keyboard.rs
BindLegacy ==
    /\ pc = "encode"
    /\ family = "Keyboard"
    /\ ncalls < MaxCalls
    /\ \E in \in CallInputs :
          Called(in[1], in[2], in[3],
                 BindKeyLegacy(in[1], in[2], in[3], output))

NextEncoder ==
    New884x \/ Bind8890 \/ Bind884x \/ Bind8850 \/ Bind8840 \/ BindLegacy

SpecEncoder == InitEncoder /\ [][NextEncoder]_vars

\* what the last call appended to output
Emitted == SubSeq(output, call.before + 1, Len(output))

NumPackets(bytes) == Len(bytes) \div PacketSize
Packet(bytes, i) == SubSeq(bytes, (i - 1) * PacketSize + 1, i * PacketSize)

\* a packet whose leading bytes are msg and whose other bytes are zero
IsMessage(packet, msg) ==
    /\ Len(packet) = PacketSize
    /\ \A j \in 1..PacketSize :
          packet[j] = IF j <= Len(msg) THEN msg[j] ELSE 0

(***************************************************************************)
(* Config::render (config.rs).                                             *)
(***************************************************************************)
Orientations == {"Normal", "UpsideDown", "Clockwise", "CounterClockwise"}

\* Orientation::is_horizontal
IsHorizontal(orientation) ==
    orientation = "Normal" \/ orientation = "UpsideDown"

\* Tr whose Clockwise arm forgets to mirror the column
TrClockwiseTransposes(orientation, r, c, rows, cols) ==
    CASE orientation = "Normal" -> <<r, c>>
      [] orientation = "UpsideDown" -> <<rows - r - 1, cols - c - 1>>
      [] orientation = "Clockwise" -> <<c, r>>
      [] orientation = "CounterClockwise" -> <<cols - c - 1, r>>

\* Tr whose CounterClockwise arm forgets to mirror the row
TrCounterClockwiseTransposes(orientation, r, c, rows, cols) ==
    CASE orientation = "Normal" -> <<r, c>>
      [] orientation = "UpsideDown" -> <<rows - r - 1, cols - c - 1>>
      [] orientation = "Clockwise" -> <<c, rows - r - 1>>
      [] orientation = "CounterClockwise" -> <<c, r>>

\* tr of reorient_grid: physical button position to virtual (0-based)
Tr(orientation, r, c, rows, cols) ==
    CASE orientation = "Normal" -> <<r, c>>
      [] orientation = "UpsideDown" -> <<rows - r - 1, cols - c - 1>>
      [] orientation = "Clockwise" -> <<c, rows - r - 1>>
      [] orientation = "CounterClockwise" -> <<cols - c - 1, r>>

\* the cell of data read for output index i (0-based)
ReadAt(orientation, rows, cols, i) ==
    Tr(orientation, i \div cols, i % cols, rows, cols)

\* data[r][c] exists
InGrid(data, rc) ==
    /\ rc[1] >= 0 /\ rc[1] < Len(data)
    /\ rc[2] >= 0 /\ rc[2] < Len(data[rc[1] + 1])

Panic == [panic |-> TRUE, items |-> <<>>]

\* reorient_grid; an index out of bounds panics
ReorientGrid(orientation, rows, cols, data) ==
    IF \A i \in 0..(rows * cols - 1) :
          InGrid(data, ReadAt(orientation, rows, cols, i))
    THEN [panic |-> FALSE,
          items |-> [i \in 1..(rows * cols) |->
                        LET rc == ReadAt(orientation, rows, cols, i - 1)
                        IN  data[rc[1] + 1][rc[2] + 1]]]
    ELSE Panic

Reverse(data) == [i \in 1..Len(data) |-> data[Len(data) + 1 - i]]

\* reorient_row
ReorientRow(orientation, data) ==
    IF orientation = "UpsideDown" \/ orientation = "Clockwise"
    THEN Reverse(data)
    ELSE data

\* Option<Macro>::None
NoMacro == [kind |-> "None"]

RECURSIVE KeysOf(_, _)
\* parts.iter().filter_map(|p| match p { KeyboardPart::Key(a) => Some(a), _ => None })
KeysOf(parts, i) ==
    IF i > Len(parts) THEN <<>>
    ELSE (IF parts[i].type = "Key" THEN <<parts[i]>> ELSE <<>>)
         \o KeysOf(parts, i + 1)

\* the is_limited check without skip(1): the first key part counts too
ModifiersBesideFirstKeyNoSkip(m) ==
    /\ m.kind = "Keyboard"
    /\ LET accords == KeysOf(m.parts, 1)
       IN  \E k \in 1..Len(accords) : accords[k].modifiers # {}

\* the closure of the is_limited check: a key part after the first one
\* carries modifiers
ModifiersBesideFirstKey(m) ==
    /\ m.kind = "Keyboard"
    /\ LET accords == KeysOf(m.parts, 1)
       IN  \E k \in 2..Len(accords) : accords[k].modifiers # {}

DelayCount(parts) ==
    Cardinality({k \in 1..Len(parts) : parts[k].type = "Delay"})

ErrMove == "mouse move dx/dy exceeds supported range -128..127"
ErrDelays == "more than one delay found"
ErrDelayMax == "delay exceeds maximum supported 6000ms"
ErrDelayFirst == "delay must be the first item"
ErrRows == "Invalid number of button rows"
ErrColumns == "Invalid number of button columns"
ErrKnobs == "Invalid number of knobs"
ErrModifiers ==
    "1-row keyboard with 1 knob can handle modifiers for first key in sequence only"

\* the checks with the delay bound off by one: 6000 ms is rejected
CheckMacroDelayBelow6000(m) ==
    IF m.kind = "Mouse"
    THEN IF m.action.type = "Move"
            /\ (m.action.dx < -128 \/ m.action.dx > 127
                \/ m.action.dy < -128 \/ m.action.dy > 127)
         THEN ErrMove
         ELSE ""
    ELSE IF m.kind = "Keyboard"
    THEN IF DelayCount(m.parts) > 1 THEN ErrDelays
         ELSE IF DelayCount(m.parts) = 1
         THEN IF Len(m.parts) >= 1 /\ m.parts[1].type = "Delay"
              THEN IF m.parts[1].ms >= 6000 THEN ErrDelayMax ELSE ""
              ELSE ErrDelayFirst
         ELSE ""
    ELSE ""

\* the checks with the upper move bound off by one: dx = 128 passes
CheckMacroMoveUpTo128(m) ==
    IF m.kind = "Mouse"
    THEN IF m.action.type = "Move"
            /\ (m.action.dx < -128 \/ m.action.dx > 128
                \/ m.action.dy < -128 \/ m.action.dy > 128)
         THEN ErrMove
         ELSE ""
    ELSE IF m.kind = "Keyboard"
    THEN IF DelayCount(m.parts) > 1 THEN ErrDelays
         ELSE IF DelayCount(m.parts) = 1
         THEN IF Len(m.parts) >= 1 /\ m.parts[1].type = "Delay"
              THEN IF m.parts[1].ms > 6000 THEN ErrDelayMax ELSE ""
              ELSE ErrDelayFirst
         ELSE ""
    ELSE ""

\* the checks of one Option<Macro> (buttons and knobs run the same checks);
\* "" when the macro passes
CheckMacro(m) ==
    IF m.kind = "Mouse"
    THEN IF m.action.type = "Move"
            /\ (m.action.dx < -128 \/ m.action.dx > 127
                \/ m.action.dy < -128 \/ m.action.dy > 127)
         THEN ErrMove
         ELSE ""
    ELSE IF m.kind = "Keyboard"
    THEN IF DelayCount(m.parts) > 1 THEN ErrDelays
         ELSE IF DelayCount(m.parts) = 1
         THEN IF Len(m.parts) >= 1 /\ m.parts[1].type = "Delay"
              THEN IF m.parts[1].ms > 6000 THEN ErrDelayMax ELSE ""
              ELSE ErrDelayFirst
         ELSE ""
    ELSE ""

\* the first error of a sequence of Option<Macro>, in order
RECURSIVE FirstError(_, _)
FirstError(macros, i) ==
    IF i > Len(macros) THEN ""
    ELSE IF CheckMacro(macros[i]) # "" THEN CheckMacro(macros[i])
    ELSE FirstError(macros, i + 1)

RECURSIVE KnobMacros(_, _)
\* check(&knob.ccw)?; check(&knob.press)?; check(&knob.cw)?; knob by knob
KnobMacros(knobs, i) ==
    IF i > Len(knobs) THEN <<>>
    ELSE <<knobs[i].ccw, knobs[i].press, knobs[i].cw>>
         \o KnobMacros(knobs, i + 1)

LayerOk(buttons, knobs) ==
    [ok |-> TRUE, err |-> "", buttons |-> buttons, knobs |-> knobs]
LayerErr(e) == [ok |-> FALSE, err |-> e, buttons |-> <<>>, knobs |-> <<>>]

\* the closure of Config::render applied to one layer
RenderLayer(self, layer) ==
    LET is_limited ==
            (self.rows = 1 \/ self.columns = 1) /\ self.knobs = 1
        orows == IF IsHorizontal(self.orientation)
                 THEN self.rows ELSE self.columns
        ocols == IF IsHorizontal(self.orientation)
                 THEN self.columns ELSE self.rows
        buttons == ReorientGrid(self.orientation, self.rows, self.columns,
                                layer.buttons).items
        knobs == ReorientRow(self.orientation, layer.knobs)
    IN  IF Len(layer.buttons) # orows THEN LayerErr(ErrRows)
        ELSE IF ~(\A r \in 1..Len(layer.buttons) :
                    Len(layer.buttons[r]) = ocols)
        THEN LayerErr(ErrColumns)
        ELSE IF Len(layer.knobs) # self.knobs THEN LayerErr(ErrKnobs)
        ELSE IF is_limited
                /\ \E b \in 1..Len(buttons) :
                      ModifiersBesideFirstKey(buttons[b])
        THEN LayerErr(ErrModifiers)
        ELSE IF FirstError(buttons, 1) # ""
        THEN LayerErr(FirstError(buttons, 1))
        ELSE IF FirstError(KnobMacros(knobs, 1), 1) # ""
        THEN LayerErr(FirstError(KnobMacros(knobs, 1), 1))
        ELSE LayerOk(buttons, knobs)

RenderOk(flats) == [ok |-> TRUE, err |-> "", layers |-> flats]
RenderErr(e) == [ok |-> FALSE, err |-> e, layers |-> <<>>]

\* a render that drops a failing layer and keeps the others
RECURSIVE RenderFromSkipping(_, _, _)
RenderFromSkipping(self, i, done) ==
    IF i > Len(self.layers) THEN RenderOk(done)
    ELSE LET r == RenderLayer(self, self.layers[i])
         IN  IF r.ok
             THEN RenderFromSkipping(self, i + 1,
                     Append(done, [buttons |-> r.buttons, knobs |-> r.knobs]))
             ELSE RenderFromSkipping(self, i + 1, done)

\* layers.into_iter().enumerate().map(..).collect::<Result<Vec<_>>>():
\* the first failing layer fails the whole render
RECURSIVE RenderFrom(_, _, _)
RenderFrom(self, i, done) ==
    IF i > Len(self.layers) THEN RenderOk(done)
    ELSE LET r == RenderLayer(self, self.layers[i])
         IN  IF r.ok
             THEN RenderFrom(self, i + 1,
                     Append(done, [buttons |-> r.buttons, knobs |-> r.knobs]))
             ELSE RenderErr(r.err)

\* Config::render
Render(self) == RenderFrom(self, 1, <<>>)

(***************************************************************************)
(* Mapping configs read by main.                                           *)
(***************************************************************************)
Digit1 == KeyPart({}, WellKnown(30))
PlainB == KeyPart({}, WellKnown(5))

KeyA == MacroKeyboard(<<PlainA>>)
SixKeys == MacroKeyboard(PressesOfLen(6, 0))

\* keyboard macros with and without delays
DelayMacros ==
    {MacroKeyboard(<<DelayPart(1000), Digit1, PlainA, PlainB>>),
     MacroKeyboard(<<DelayPart(6000), PlainA>>),
     MacroKeyboard(<<DelayPart(6001), PlainA>>),
     MacroKeyboard(<<DelayPart(1000), DelayPart(200), Digit1>>),
     MacroKeyboard(<<Digit1, DelayPart(100), PlainA>>),
     MacroKeyboard(<<PlainA, DelayPart(7000)>>),
     MacroKeyboard(<<DelayPart(500), AltB>>),
     MacroKeyboard(<<DelayPart(500), PlainA, AltB>>)}

ModifierMacros ==
    {MacroKeyboard(<<PlainA, AltB>>),
     MacroKeyboard(<<CtrlA, PlainB>>),
     MacroKeyboard(<<PlainA, PlainB, WinCtrl>>),
     MacroKeyboard(<<AltB>>)}

MoveMacros ==
    {MacroMouse(Move(127, -128), "None"),
     MacroMouse(Move(128, 0), "None"),
     MacroMouse(Move(0, -129), "None"),
     MacroMouse(Drag({"Left"}, 200, 0), "None")}

OtherMacros ==
    {KeyA, SixKeys, MacroMedia(VolumeUp), MacroMouse(Click({"Left"}), "None")}

MacroPool == DelayMacros \cup ModifierMacros \cup MoveMacros \cup OtherMacros

NoKnob == [ccw |-> NoMacro, press |-> NoMacro, cw |-> NoMacro]

\* a layer of nrows x ncols buttons and nknobs knobs whose slot pos holds m
\* (buttons row by row, then ccw, press, cw of each knob; pos 0: no slot)
\* and whose other buttons hold filler
LayerWith(nrows, ncols, nknobs, pos, m, filler) ==
    [buttons |->
        [r \in 1..nrows |->
            [c \in 1..ncols |->
                IF (r - 1) * ncols + c = pos THEN m ELSE filler]],
     knobs |->
        [k \in 1..nknobs |->
            LET s == nrows * ncols + 3 * (k - 1)
            IN  [ccw |-> IF pos = s + 1 THEN m ELSE NoMacro,
                 press |-> IF pos = s + 2 THEN m ELSE NoMacro,
                 cw |-> IF pos = s + 3 THEN m ELSE NoMacro]]]

\* layers whose grid or knob list has the wrong shape
MisshapenLayers(orows, ocols, nknobs) ==
    {LayerWith(orows + 1, ocols, nknobs, 0, NoMacro, NoMacro),
     LayerWith(orows, ocols + 1, nknobs, 0, NoMacro, NoMacro),
     LayerWith(orows, ocols - 1, nknobs, 0, NoMacro, NoMacro),
     LayerWith(ocols, orows, nknobs, 0, NoMacro, KeyA),
     LayerWith(orows, ocols, nknobs + 1, 0, NoMacro, NoMacro),
     [buttons |-> [r \in 1..orows |->
                      [c \in 1..(IF r = orows THEN ocols + 1 ELSE ocols) |->
                          NoMacro]],
      knobs |-> [k \in 1..nknobs |-> NoKnob]]}

\* the slots a macro is tried in: the first and the last button, the first
\* action of the first knob and the last action of the last knob
Slots(orows, ocols, nknobs) ==
    {1, orows * ocols} \cup
    (IF nknobs > 0
     THEN {orows * ocols + 1, orows * ocols + 3 * nknobs}
     ELSE {})

\* the first layer of a config
FirstLayers(orows, ocols, nknobs) ==
    {LayerWith(orows, ocols, nknobs, pos, m, NoMacro) :
        pos \in Slots(orows, ocols, nknobs), m \in MacroPool}
    \cup {LayerWith(orows, ocols, nknobs, 0, NoMacro, filler) :
            filler \in {NoMacro, KeyA}}
    \cup MisshapenLayers(orows, ocols, nknobs)

\* the second layer (the layers after it are plain ones)
LaterLayers(orows, ocols, nknobs) ==
    {LayerWith(orows, ocols, nknobs, orows * ocols, MacroMedia(VolumeUp), KeyA),
     LayerWith(orows, ocols + 1, nknobs, 0, NoMacro, NoMacro)}

RECURSIVE LayerLists(_, _, _, _)
\* the lists of 0..n layers
LayerLists(orows, ocols, nknobs, n) ==
    IF n = 0 THEN {<<>>}
    ELSE IF n = 1
    THEN {<<>>} \cup {<<l>> : l \in FirstLayers(orows, ocols, nknobs)}
    ELSE LET shorter == LayerLists(orows, ocols, nknobs, n - 1)
         IN  shorter \cup
             {Append(ls, l) :
                ls \in {x \in shorter : Len(x) = n - 1},
                l \in (IF n = 2 THEN LaterLayers(orows, ocols, nknobs)
                       ELSE {LayerWith(orows, ocols, nknobs, 0, NoMacro,
                                       KeyA)})}

ConfigsOf(o, rows, columns, nknobs) ==
    LET orows == IF IsHorizontal(o) THEN rows ELSE columns
        ocols == IF IsHorizontal(o) THEN columns ELSE rows
    IN  {[orientation |-> o, rows |-> rows, columns |-> columns,
          knobs |-> nknobs, layers |-> ls] :
            ls \in LayerLists(orows, ocols, nknobs, MaxLayers)}

Configs ==
    UNION {ConfigsOf(o, rows, columns, nknobs) :
            o \in Orientations, rows \in {1, MaxRows},
            columns \in {1, MaxCols}, nknobs \in {0, 1, MaxKnobs}}

\* the macros bound to buttons / to knob actions in a layer as it was read
ButtonMacrosOf(layer) ==
    UNION {{layer.buttons[r][c] : c \in 1..Len(layer.buttons[r])} :
            r \in 1..Len(layer.buttons)}

KnobMacrosOf(layer) ==
    UNION {{layer.knobs[k].ccw, layer.knobs[k].press, layer.knobs[k].cw} :
            k \in 1..Len(layer.knobs)}

MacrosOf(cfg) ==
    UNION {ButtonMacrosOf(cfg.layers[i]) \cup KnobMacrosOf(cfg.layers[i]) :
            i \in 1..Len(cfg.layers)}

\* the encoder f has an arm for the macro (the encoders of this source take
\* a keyboard macro as a list of accords)
Encodable(f, m) ==
    CASE m.kind = "None" -> TRUE
      [] m.kind = "Keyboard" ->
            \A k \in 1..Len(m.parts) : m.parts[k].type = "Key"
      [] m.kind = "Media" -> TRUE
      [] m.kind = "Mouse" ->
            m.action.type \in
                (IF f \in {"Keyboard", "8840"}
                 THEN {"Click", "WheelUp", "WheelDown"}
                 ELSE {"Move", "Drag", "Click", "Scroll"})

\* the configs of the upload runs: one row of two buttons, macros that
\* render rejects or the encoder of the run has an arm for
UploadConfigs(f) ==
    {cfg \in UNION {ConfigsOf(o, 1, 2, nknobs) :
                        o \in {"Normal", "UpsideDown"}, nknobs \in {0, 1}} :
        \A m \in MacrosOf(cfg) : Encodable(f, m) \/ CheckMacro(m) # ""}

(***************************************************************************)
(* main: Command::Validate and Command::Upload.                            *)
(***************************************************************************)
Init ==
    /\ input = <<>>
    /\ parsed = NoParse
    /\ reparsed = NoReparse
    /\ command \in {"Validate", "Upload"}
    /\ family \in (IF command = "Upload" THEN {"Keyboard", "8840", "8890"}
                   ELSE {"none"})
    /\ config \in (IF command = "Upload" THEN UploadConfigs(family)
                   ELSE Configs)
    /\ kbd = NoKbd
    /\ pc = "start"
    /\ layers = <<>>
    /\ err = ""
    /\ next = 0
    /\ output = <<>>
    /\ call = NoCall
    /\ ncalls = 0
    /\ grid = NoGrid
    /\ flat = Panic
    /\ back = Panic

\* Command::Validate: config.render()?, then "config is valid"
Validate ==
    /\ pc = "start"
    /\ command = "Validate"
    /\ LET r == Render(config)
       IN  /\ layers' = r.layers
           /\ err' = r.err
           /\ pc' = IF r.ok THEN "done" ELSE "failed"
    /\ UNCHANGED <<reparsed, input, parsed, command, config, family, kbd, next, output, call, ncalls,
                   grid, flat, back>>

\* Command::Upload: let layers = config.render()?
UploadRender ==
    /\ pc = "start"
    /\ command = "Upload"
    /\ LET r == Render(config)
       IN  /\ layers' = r.layers
           /\ err' = r.err
           /\ pc' = IF r.ok THEN "open" ELSE "failed"
    /\ UNCHANGED <<reparsed, input, parsed, command, config, family, kbd, next, output, call, ncalls,
                   grid, flat, back>>

\* open_keyboard: Keyboard::new of keyboard.rs and Keyboard8840::new send
\* one packet; Keyboard8890::new sends none
OpenKeyboard ==
    /\ pc = "open"
    /\ output' = CASE family = "Keyboard" ->
                        Send(output, <<0, 0, 0, 0, 0, 0, 0, 0>>)
                   [] family = "8840" -> TraitSend(output, <<>>)
                   [] family = "8890" -> output
    /\ next' = 1
    /\ pc' = "upload"
    /\ UNCHANGED <<reparsed, input, parsed, command, config, family, kbd, layers, err, call, ncalls,
                   grid, flat, back>>

Binding(layer, key, m) == [layer |-> layer, key |-> key, macro |-> m]

RECURSIVE ButtonBindings(_, _, _)
\* for (button_idx, macro_) in layer.buttons.iter().enumerate()
ButtonBindings(layer_idx, buttons, i) ==
    IF i > Len(buttons) THEN <<>>
    ELSE (IF buttons[i].kind # "None"
          THEN <<Binding(AsU8(layer_idx), Button(AsU8(i - 1)), buttons[i])>>
          ELSE <<>>)
         \o ButtonBindings(layer_idx, buttons, i + 1)

RECURSIVE KnobBindings(_, _, _)
\* for (knob_idx, knob) in layer.knobs.iter().enumerate(): ccw, press, cw
KnobBindings(layer_idx, knobs, i) ==
    IF i > Len(knobs) THEN <<>>
    ELSE (IF knobs[i].ccw.kind # "None"
          THEN <<Binding(AsU8(layer_idx), Knob(AsU8(i - 1), RotateCCW),
                         knobs[i].ccw)>>
          ELSE <<>>)
         \o (IF knobs[i].press.kind # "None"
             THEN <<Binding(AsU8(layer_idx), Knob(AsU8(i - 1), Press),
                            knobs[i].press)>>
             ELSE <<>>)
         \o (IF knobs[i].cw.kind # "None"
             THEN <<Binding(AsU8(layer_idx), Knob(AsU8(i - 1), RotateCW),
                            knobs[i].cw)>>
             ELSE <<>>)
         \o KnobBindings(layer_idx, knobs, i + 1)

RECURSIVE Bindings(_, _)
\* the bind_key calls of the upload loop, in order
Bindings(flats, i) ==
    IF i > Len(flats) THEN <<>>
    ELSE ButtonBindings(i - 1, flats[i].buttons, 1)
         \o KnobBindings(i - 1, flats[i].knobs, 1)
         \o Bindings(flats, i + 1)

\* keyboard.bind_key(layer_idx, key, macro_) of the selected encoder
BindKey(f, layer, key, expansion, out) ==
    CASE f = "Keyboard" -> BindKeyLegacy(layer, key, expansion, out)
      [] f = "8840" -> BindKey8840(layer, key, expansion, out)
      [] f = "8890" -> BindKey8890(layer, key, expansion, out)

\* one iteration of the upload loop: bind the next macro; an error ends
\* the run
UploadBind ==
    /\ pc = "upload"
    /\ next <= Len(Bindings(layers, 1))
    /\ LET b == Bindings(layers, 1)[next]
           r == BindKey(family, b.layer, b.key, b.macro, output)
       IN  /\ output' = r.output
           /\ call' = [layer |-> b.layer, key |-> b.key, macro |-> b.macro,
                       before |-> Len(output), ok |-> r.ok, err |-> r.err,
                       made |-> TRUE]
           /\ ncalls' = ncalls + 1
           /\ err' = r.err
           /\ pc' = IF r.ok THEN "upload" ELSE "failed"
           /\ next' = IF r.ok THEN next + 1 ELSE next
    /\ UNCHANGED <<reparsed, input, parsed, command, config, family, kbd, layers, grid, flat, back>>

\* the upload loop is over: Ok(())
UploadDone ==
    /\ pc = "upload"
    /\ next > Len(Bindings(layers, 1))
    /\ pc' = "done"
    /\ UNCHANGED <<reparsed, input, parsed, command, config, family, kbd, layers, err, next, output,
                   call, ncalls, grid, flat, back>>

Next == Validate \/ UploadRender \/ OpenKeyboard \/ UploadBind \/ UploadDone

Spec == Init /\ [][Next]_vars

(***************************************************************************)
(* reorient_grid driven on grids of numbered cells.                        *)
(***************************************************************************)
\* a grid of nrows x ncols cells numbered first, first+1, ... row by row
Numbered(nrows, ncols, first) ==
    [r \in 1..nrows |-> [c \in 1..ncols |-> first + (r - 1) * ncols + c - 1]]

\* the grid shape the dimension check of Config::render lets through
GridFor(orientation, rows, cols, first) ==
    IF IsHorizontal(orientation)
    THEN Numbered(rows, cols, first)
    ELSE Numbered(cols, rows, first)

GridInputs ==
    {[orientation |-> o, rows |-> r, cols |-> c,
      data |-> GridFor(o, r, c, first)] :
        o \in Orientations, r \in 1..MaxDim, c \in 1..MaxDim,
        first \in {1, 101}}

\* the flat list of rows x cols items seen as a grid again
Unflatten(items, nrows, ncols) ==
    [r \in 1..nrows |-> [c \in 1..ncols |-> items[(r - 1) * ncols + c]]]

RECURSIVE Flatten(_, _)
Flatten(data, r) ==
    IF r > Len(data) THEN <<>> ELSE data[r] \o Flatten(data, r + 1)

\* the orientation that undoes orientation
Opposite(orientation) ==
    CASE orientation = "Normal" -> "Normal"
      [] orientation = "UpsideDown" -> "UpsideDown"
      [] orientation = "Clockwise" -> "CounterClockwise"
      [] orientation = "CounterClockwise" -> "Clockwise"

InitReorient ==
    /\ input = <<>>
    /\ parsed = NoParse
    /\ reparsed = NoReparse
    /\ command = "none"
    /\ config = NoConfig
    /\ family = "none"
    /\ kbd = NoKbd
    /\ pc = "reorient"
    /\ layers = <<>>
    /\ err = ""
    /\ next = 0
    /\ output = <<>>
    /\ call = NoCall
    /\ ncalls = 0
    /\ grid \in GridInputs
    /\ flat = Panic
    /\ back = Panic

\* reorient_grid(orientation, rows, cols, data)
Reorient ==
    /\ pc = "reorient"
    /\ flat' = ReorientGrid(grid.orientation, grid.rows, grid.cols, grid.data)
    /\ pc' = "reoriented"
    /\ UNCHANGED <<reparsed, input, parsed, command, config, family, kbd, layers, err, next, output,
                   call, ncalls, grid, back>>

\* reorient_grid applied to the result with the opposite orientation; the
\* rotations swap rows and columns for the second step
ReorientBack ==
    /\ pc = "reoriented"
    /\ ~flat.panic
    /\ LET rows2 == IF IsHorizontal(grid.orientation)
                    THEN grid.rows ELSE grid.cols
           cols2 == IF IsHorizontal(grid.orientation)
                    THEN grid.cols ELSE grid.rows
       IN  back' = ReorientGrid(Opposite(grid.orientation), rows2, cols2,
                                Unflatten(flat.items, grid.rows, grid.cols))
    /\ pc' = "restored"
    /\ UNCHANGED <<reparsed, input, parsed, command, config, family, kbd, layers, err, next, output,
                   call, ncalls, grid, flat>>

NextReorient == Reorient \/ ReorientBack

SpecReorient == InitReorient /\ [][NextReorient]_vars

(***************************************************************************)
(* parse.rs: the nom parsers of accords and macros.  A text is a sequence  *)
(* of characters.                                                          *)
(***************************************************************************)
\* char::is_alphabetic on the characters of the model
Letters ==
    {"a", "b", "c", "d", "e", "f", "g", "h", "i", "j", "k", "l", "m",
     "n", "o", "p", "q", "r", "s", "t", "u", "v", "w", "x", "y", "z",
     "A", "C", "N", "P", "S", "T"}

\* char::is_ascii_digit
Digits == {"0", "1", "2", "3", "4", "5", "6", "7", "8", "9"}

RECURSIVE Span(_, _)
\* alpha1, alphanumeric1, digit1: the length of the longest prefix of s made
\* of the given characters
Span(s, chars) ==
    IF s = <<>> \/ Head(s) \notin chars THEN 0
    ELSE 1 + Span(Tail(s), chars)

\* strum(ascii_case_insensitive): names are compared in lower case
ToLower(name) ==
    LET lower == "A" :> "a" @@ "C" :> "c" @@ "N" :> "n" @@ "P" :> "p" @@
                 "S" :> "s" @@ "T" :> "t"
    IN  [i \in 1..Len(name) |->
            IF name[i] \in DOMAIN lower THEN lower[name[i]] ELSE name[i]]

RECURSIVE Number(_)
\* str::parse of a digit string
Number(digits) ==
    IF digits = <<>> THEN 0
    ELSE 10 * Number(SubSeq(digits, 1, Len(digits) - 1))
         + (CHOOSE d \in 0..9 : ToString(d) = digits[Len(digits)])

\* tag(t)
HasPrefix(s, t) == Len(s) >= Len(t) /\ SubSeq(s, 1, Len(t)) = t

\* the variants of MediaCode that the model knows: each serialized name, as
\* strum derives it or as the serialize attributes give it, with its code,
\* in the order of the source
MediaCodeNames ==
    <<<<<<"p", "l", "a", "y">>, 176>>,
      <<<<"p", "a", "u", "s", "e">>, 177>>,
      <<<<"p", "o", "w", "e", "r">>, 48>>,
      <<<<"m", "u", "t", "e">>, 226>>,
      <<<<"S", "c", "a", "n", "N", "e", "x", "t", "T", "r", "a", "c", "k">>, 181>>,
      <<<<"N", "e", "x", "t">>, 181>>,
      <<<<"+", "1", "0">>, 32>>,
      <<<<"P", "1", "0">>, 32>>,
      <<<<"v", "c", "r", "/", "t", "v">>, 99>>,
      <<<<"v", "c", "r", "T", "v">>, 99>>>>

\* MediaCode::from_str: the first name that is equal ignoring case; 0 stands
\* for Err
MediaCodeFromStr(name) ==
    LET matches == {i \in 1..Len(MediaCodeNames) :
                        ToLower(MediaCodeNames[i][1]) = ToLower(name)}
        First(found) ==
            MediaCodeNames[CHOOSE i \in found : \A j \in found : i <= j][2]
    IN  IF matches = {} THEN 0 ELSE First(matches)

\* the names of WellKnownCode that the model knows, with their codes
WellKnownCodeNames ==
    <<"a">> :> 4 @@
    <<"b">> :> 5 @@
    <<"1">> :> 30 @@
    <<"2">> :> 31 @@
    <<"e", "n", "t", "e", "r">> :> 40 @@
    <<"m", "i", "n", "u", "s">> :> 45 @@
    <<"e", "q", "u", "a", "l">> :> 46 @@
    <<"c", "o", "m", "m", "a">> :> 54 @@
    <<"d", "o", "t">> :> 55 @@
    <<"f", "1">> :> 58 @@
    <<"p", "a", "u", "s", "e">> :> 72 @@
    <<"p", "o", "w", "e", "r">> :> 102

\* WellKnownCode::from_str; 0 stands for Err
WellKnownCodeFromStr(name) ==
    IF ToLower(name) \in DOMAIN WellKnownCodeNames
    THEN WellKnownCodeNames[ToLower(name)] ELSE 0

\* the serialized names of Modifier with their variants, in the order of the
\* source
ModifierNames ==
    <<<<<<"c", "t", "r", "l">>, "Ctrl">>,
      <<<<"s", "h", "i", "f", "t">>, "Shift">>,
      <<<<"a", "l", "t">>, "Alt">>,
      <<<<"o", "p", "t">>, "Alt">>,
      <<<<"w", "i", "n">>, "Win">>,
      <<<<"c", "m", "d">>, "Win">>,
      <<<<"r", "c", "t", "r", "l">>, "RightCtrl">>,
      <<<<"r", "s", "h", "i", "f", "t">>, "RightShift">>,
      <<<<"r", "a", "l", "t">>, "RightAlt">>,
      <<<<"r", "o", "p", "t">>, "RightAlt">>,
      <<<<"r", "w", "i", "n">>, "RightWin">>,
      <<<<"r", "c", "m", "d">>, "RightWin">>>>

\* Modifier::from_str; "" stands for Err
ModifierFromStr(name) ==
    LET matches == {i \in 1..Len(ModifierNames) :
                        ModifierNames[i][1] = ToLower(name)}
        First(found) ==
            ModifierNames[CHOOSE i \in found : \A j \in found : i <= j][2]
    IN  IF matches = {} THEN "" ELSE First(matches)

\* MouseModifier::from_str; "" stands for Err
MouseModifierFromStr(name) ==
    CASE ToLower(name) = <<"c", "t", "r", "l">> -> "Ctrl"
      [] ToLower(name) = <<"s", "h", "i", "f", "t">> -> "Shift"
      [] ToLower(name) = <<"a", "l", "t">> -> "Alt"
      [] OTHER -> ""

\* the base key of each shifted character (without the double quote)
SHIFTED_CHARS_MAP ==
    "!" :> 30 @@ "@" :> 31 @@ "#" :> 32 @@ "$" :> 33 @@ "%" :> 34 @@
    "^" :> 35 @@ "&" :> 36 @@ "*" :> 37 @@ "(" :> 38 @@ ")" :> 39 @@
    "_" :> 45 @@ "+" :> 46 @@ "{" :> 47 @@ "}" :> 48 @@ "|" :> 49 @@
    ":" :> 51 @@ "~" :> 53 @@ "<" :> 54 @@ ">" :> 55 @@ "?" :> 56

\* the characters that are a key by themselves: direct_code_opt (without
\* the backslash, the single quote and the grave accent)
DirectCodes ==
    "-" :> 45 @@ "=" :> 46 @@ "[" :> 47 @@ "]" :> 48 @@ ";" :> 51 @@
    "," :> 54 @@ "." :> 55 @@ "/" :> 56 @@ " " :> 44

\* IResult: Ok((rest, value)) and Err(Error { input, code })
POk(rest, value) == [ok |-> TRUE, rest |-> rest, value |-> value, code |-> ""]
PErr(input_, code) ==
    [ok |-> FALSE, rest |-> input_, value |-> [kind |-> "None"], code |-> code]

single_key_unit(s) ==
    LET Unit(n, code_val, m, wk_code, rest) ==
            IF /\ Head(s) = "<"
               /\ n >= 1
               /\ Len(s) >= n + 2
               /\ s[n + 2] = ">"
               /\ code_val <= 255
               /\ \/ rest = <<>>
                  \/ ~(Head(rest) \in
                         Letters \cup Digits \cup DOMAIN SHIFTED_CHARS_MAP)
            THEN POk(rest, [unit |-> "CustomCode", code |-> Custom(code_val)])
            ELSE IF Head(s) \in DOMAIN SHIFTED_CHARS_MAP
            THEN POk(Tail(s), [unit |-> "ShiftedCode",
                               code |-> WellKnown(SHIFTED_CHARS_MAP[Head(s)])])
            ELSE IF Head(s) \in DOMAIN DirectCodes
            THEN POk(Tail(s), [unit |-> "DirectCode",
                               code |-> WellKnown(DirectCodes[Head(s)])])
            ELSE IF m >= 1 /\ wk_code # 0
            THEN POk(SubSeq(s, m + 1, Len(s)),
                     [unit |-> "DirectCode", code |-> WellKnown(wk_code)])
            ELSE PErr(s, "Alt")
        Names(n, m) ==
            Unit(n, Number(SubSeq(s, 2, n + 1)), m,
                 WellKnownCodeFromStr(SubSeq(s, 1, m)),
                 SubSeq(s, n + 3, Len(s)))
    IN  IF s = <<>> THEN PErr(s, "Eof")
        ELSE Names(Span(Tail(s), Digits), Span(s, Letters \cup Digits))

\* map_res(alpha1, Modifier::from_str)
modifier(s) ==
    LET FromStr(m, name) ==
            IF m = 0 THEN PErr(s, "Alpha")
            ELSE IF name = "" THEN PErr(s, "MapRes")
            ELSE POk(SubSeq(s, m + 1, Len(s)), [name |-> name])
        Alpha1(m) == FromStr(m, ModifierFromStr(SubSeq(s, 1, m)))
    IN  Alpha1(Span(s, Letters))

RECURSIVE FoldModifiers(_, _)
\* fold_many0(terminated(modifier, nom_char('-')), Modifiers::empty, |)
FoldModifiers(s, mods) ==
    LET Terminated(r) ==
            IF r.ok /\ r.rest # <<>> /\ Head(r.rest) = "-"
            THEN FoldModifiers(Tail(r.rest), mods \cup {r.value.name})
            ELSE [rest |-> s, mods |-> mods]
    IN  Terminated(modifier(s))

accord(s) ==
    LET Standalone(explicit_modifiers, m) ==
            IF m.ok
            THEN POk(m.rest,
                     KeyPart(explicit_modifiers \cup {m.value.name}, NoCode))
            ELSE m
        Unit(explicit_modifiers, s_after_explicit_mods, unit) ==
            IF unit.ok
            THEN POk(unit.rest,
                     KeyPart(explicit_modifiers
                                \cup (IF unit.value.unit = "ShiftedCode"
                                      THEN {"Shift"} ELSE {}),
                             unit.value.code))
            ELSE Standalone(explicit_modifiers,
                            modifier(s_after_explicit_mods))
        Folded(s_after_explicit_mods, explicit_modifiers) ==
            IF s_after_explicit_mods = <<>>
            THEN IF explicit_modifiers = {} /\ s = <<>> THEN PErr(s, "Eof")
                 ELSE IF explicit_modifiers = {} THEN PErr(s, "TakeTill1")
                 ELSE POk(<<>>, KeyPart(explicit_modifiers, NoCode))
            ELSE Unit(explicit_modifiers, s_after_explicit_mods,
                      single_key_unit(s_after_explicit_mods))
        Fold(folded) == Folded(folded.rest, folded.mods)
    IN  Fold(FoldModifiers(s, {}))

\* the button of mouse_event: click or lclick, rclick, mclick
button(s) ==
    CASE HasPrefix(s, <<"c", "l", "i", "c", "k">>) ->
            POk(SubSeq(s, 6, Len(s)), [name |-> "Left"])
      [] HasPrefix(s, <<"l", "c", "l", "i", "c", "k">>) ->
            POk(SubSeq(s, 7, Len(s)), [name |-> "Left"])
      [] HasPrefix(s, <<"r", "c", "l", "i", "c", "k">>) ->
            POk(SubSeq(s, 7, Len(s)), [name |-> "Right"])
      [] HasPrefix(s, <<"m", "c", "l", "i", "c", "k">>) ->
            POk(SubSeq(s, 7, Len(s)), [name |-> "Middle"])
      [] OTHER -> PErr(s, "Tag")

RECURSIVE Buttons(_, _)
\* separated_list1(nom_char('+'), button) after its first button
Buttons(s, found) ==
    LET More(r) ==
            IF r.ok THEN Buttons(r.rest, found \cup {r.value.name})
            ELSE POk(s, [buttons |-> found])
    IN  IF s # <<>> /\ Head(s) = "+" THEN More(button(Tail(s)))
        ELSE POk(s, [buttons |-> found])

mouse_event(s) ==
    LET Event(modifier_, r) ==
            IF r.ok
            THEN POk(r.rest, [action |-> r.value.action,
                              modifier |-> modifier_])
            ELSE r
        Click_(click) ==
            POk(click.rest, [action |-> Click(click.value.buttons)])
        Action(t, first) ==
            IF first.ok THEN Click_(Buttons(first.rest, {first.value.name}))
            ELSE IF HasPrefix(t, <<"w", "h", "e", "e", "l", "u", "p">>)
            THEN POk(SubSeq(t, 8, Len(t)), [action |-> WheelUp])
            ELSE IF HasPrefix(t, <<"w", "h", "e", "e", "l", "d", "o", "w", "n">>)
            THEN POk(SubSeq(t, 10, Len(t)), [action |-> WheelDown])
            ELSE PErr(t, "Tag")
        Rest(modifier_, t) == Event(modifier_, Action(t, button(t)))
        Opt(m, mouse_modifier) ==
            IF m >= 1 /\ mouse_modifier # "" /\ Len(s) > m /\ s[m + 1] = "-"
            THEN Rest(mouse_modifier, SubSeq(s, m + 2, Len(s)))
            ELSE Rest("None", s)
        Alpha1(m) == Opt(m, MouseModifierFromStr(SubSeq(s, 1, m)))
    IN  Alpha1(Span(s, Letters))

\* map_res(alpha1, MediaCode::from_str)
media_code(s) ==
    LET FromStr(m, code) ==
            IF m = 0 THEN PErr(s, "Alpha")
            ELSE IF code = 0 THEN PErr(s, "MapRes")
            ELSE POk(SubSeq(s, m + 1, Len(s)), [code |-> code])
        Alpha1(m) == FromStr(m, MediaCodeFromStr(SubSeq(s, 1, m)))
    IN  Alpha1(Span(s, Letters))

RECURSIVE Accords(_, _)
\* separated_list1(nom_char(','), accord) after its first accord
Accords(s, found) ==
    LET More(r) ==
            IF r.ok THEN Accords(r.rest, Append(found, r.value))
            ELSE POk(s, [accords |-> found])
    IN  IF s # <<>> /\ Head(s) = "," THEN More(accord(Tail(s)))
        ELSE POk(s, [accords |-> found])

\* the keyboard sequence alternative tried before the media alternative
MacroKeyboardFirst(s) ==
    LET Media(media) ==
            IF media.ok THEN POk(media.rest, MacroMedia(media.value.code))
            ELSE media
        List(keyboard) ==
            POk(keyboard.rest, MacroKeyboard(keyboard.value.accords))
        Keyboard(first) ==
            IF first.ok THEN List(Accords(first.rest, <<first.value>>))
            ELSE Media(media_code(s))
        Mouse(mouse) ==
            IF mouse.ok
            THEN POk(mouse.rest,
                     MacroMouse(mouse.value.action, mouse.value.modifier))
            ELSE Keyboard(accord(s))
    IN  Mouse(mouse_event(s))

\* r#macro: alt((mouse_event, media_code, separated_list1(',', accord)))
macro(s) ==
    LET List(keyboard) ==
            POk(keyboard.rest, MacroKeyboard(keyboard.value.accords))
        Keyboard(first) ==
            IF first.ok THEN List(Accords(first.rest, <<first.value>>))
            ELSE first
        Media(media) ==
            IF media.ok THEN POk(media.rest, MacroMedia(media.value.code))
            ELSE Keyboard(accord(s))
        Mouse(mouse) ==
            IF mouse.ok
            THEN POk(mouse.rest,
                     MacroMouse(mouse.value.action, mouse.value.modifier))
            ELSE Media(media_code(s))
    IN  Mouse(mouse_event(s))

\* Parser::parse of the parser that is passed to parse and from_str
Apply(parser, s) == IF parser = "accord" THEN accord(s) ELSE macro(s)

\* a parse that returns the value of any match, whatever input is left
ParsePrefix(parser, s) ==
    LET AnyPrefix(r) == IF r.ok THEN POk(<<>>, r.value) ELSE r
    IN  AnyPrefix(Apply(parser, s))

\* parse: all_consuming(parser)(input).finish()
parse(parser, s) ==
    LET AllConsuming(r) ==
            IF r.ok /\ r.rest # <<>> THEN PErr(r.rest, "Eof")
            ELSE IF r.ok THEN POk(<<>>, r.value)
            ELSE r
    IN  AllConsuming(Apply(parser, s))

\* from_str: parse, with the input of the error converted to a String
from_str(parser, s) ==
    LET Owned(r) ==
            [by |-> parser, ok |-> r.ok, value |-> r.value, input |-> r.rest,
             code |-> r.code]
    IN  Owned(parse(parser, s))

\* Display of u8: the decimal digits
RECURSIVE Decimal(_)
Decimal(n) ==
    LET digit == <<"0", "1", "2", "3", "4", "5", "6", "7", "8", "9">>
    IN  IF n < 10 THEN <<digit[n + 1]>>
        ELSE Decimal(n \div 10) \o <<digit[(n % 10) + 1]>>

RECURSIVE Format(_, _)
\* Itertools::format: the items separated by sep
Format(items, sep) ==
    IF items = <<>> THEN <<>>
    ELSE IF Len(items) = 1 THEN items[1]
    ELSE items[1] \o sep \o Format(Tail(items), sep)

\* the Display that strum derives for a variant with serialize attributes:
\* its longest serialized name, the last one of the source among equals
PreferredName(names, variant) ==
    LET Longest(own) ==
            own[CHOOSE i \in 1..Len(own) :
                    \A j \in 1..Len(own) :
                        \/ Len(own[j][1]) < Len(own[i][1])
                        \/ Len(own[j][1]) = Len(own[i][1]) /\ j <= i][1]
        Named(entry) == entry[2] = variant
    IN  Longest(SelectSeq(names, Named))

\* impl Display for Code
DisplayCode(code) ==
    IF code.tag = "Custom" THEN <<"<">> \o Decimal(code.v) \o <<">">>
    ELSE CHOOSE name \in DOMAIN WellKnownCodeNames :
            WellKnownCodeNames[name] = code.v

\* impl Display for Accord
DisplayAccord(a) ==
    LET Held(m) == m \in a.modifiers
        Names(held) ==
            Format([i \in 1..Len(held) |-> PreferredName(ModifierNames, held[i])],
                   <<"-">>)
        Code_(modifiers) ==
            IF a.code = NoCode THEN modifiers
            ELSE IF a.modifiers # {} THEN modifiers \o <<"-">> \o DisplayCode(a.code)
            ELSE modifiers \o DisplayCode(a.code)
    IN  Code_(Names(SelectSeq(Modifier, Held)))

\* impl Display for MouseAction
DisplayMouseAction(action) ==
    LET name == "Left" :> <<"c", "l", "i", "c", "k">> @@
                "Right" :> <<"r", "c", "l", "i", "c", "k">> @@
                "Middle" :> <<"m", "c", "l", "i", "c", "k">>
        Pressed(b) == b \in action.buttons
        Names(pressed) ==
            Format([i \in 1..Len(pressed) |-> name[pressed[i]]], <<"+">>)
    IN  IF action.type = "Click" THEN Names(SelectSeq(MouseButton, Pressed))
        ELSE IF action.type = "WheelUp"
        THEN <<"w", "h", "e", "e", "l", "u", "p">>
        ELSE <<"w", "h", "e", "e", "l", "d", "o", "w", "n">>

\* impl Display for MouseEvent
DisplayMouseEvent(event) ==
    LET name == "Ctrl" :> <<"C", "t", "r", "l">> @@
                "Shift" :> <<"S", "h", "i", "f", "t">> @@
                "Alt" :> <<"A", "l", "t">>
    IN  IF event.modifier # "None"
        THEN name[event.modifier] \o <<"-">> \o DisplayMouseAction(event.action)
        ELSE DisplayMouseAction(event.action)

\* impl Display for Macro
DisplayMacro(m) ==
    IF m.kind = "Keyboard"
    THEN Format([i \in 1..Len(m.parts) |-> DisplayAccord(m.parts[i])], <<",">>)
    ELSE IF m.kind = "Media" THEN PreferredName(MediaCodeNames, m.code)
    ELSE DisplayMouseEvent(m)

\* to_string of the value that the parser of that name returns
ToString_(parser, value) ==
    IF parser = "accord" THEN DisplayAccord(value) ELSE DisplayMacro(value)

\* the pieces the parsed texts are made of
Fragments ==
    {<<"c", "l", "i", "c", "k">>,
     <<"r", "c", "l", "i", "c", "k">>,
     <<"w", "h", "e", "e", "l", "u", "p">>,
     <<"p", "a", "u", "s", "e">>,
     <<"c", "t", "r", "l">>,
     <<"a">>,
     <<"1">>,
     <<"-">>,
     <<"+">>,
     <<",">>,
     <<"!">>,
     <<"<", "2", "3", ">">>,
     <<"v", "c", "r", "t", "v">>,
     <<"P", "1", "0">>}

RECURSIVE TextsOf(_)
TextsOf(n) ==
    IF n = 0 THEN {<<>>}
    ELSE {t \o f : t \in TextsOf(n - 1), f \in Fragments}

Texts == UNION {TextsOf(n) : n \in 0..MaxFragments}

InitParser ==
    /\ input \in Texts
    /\ parsed = NoParse
    /\ reparsed = NoReparse
    /\ pc \in {"accord", "macro"}
    /\ command = "none"
    /\ config = NoConfig
    /\ family = "none"
    /\ kbd = NoKbd
    /\ layers = <<>>
    /\ err = ""
    /\ next = 0
    /\ output = <<>>
    /\ call = NoCall
    /\ ncalls = 0
    /\ grid = NoGrid
    /\ flat = <<>>
    /\ back = <<>>

\* impl FromStr for Accord
ParseAccord ==
    /\ pc = "accord"
    /\ parsed' = from_str("accord", input)
    /\ pc' = "parsed"
    /\ UNCHANGED <<reparsed, input, command, config, family, kbd, layers, err,
                   next, output, call, ncalls, grid, flat, back>>

\* impl FromStr for Macro
ParseMacro ==
    /\ pc = "macro"
    /\ parsed' = from_str("macro", input)
    /\ pc' = "parsed"
    /\ UNCHANGED <<reparsed, input, command, config, family, kbd, layers, err,
                   next, output, call, ncalls, grid, flat, back>>

\* value.to_string().parse() of a parsed value
Reformat ==
    /\ pc = "parsed"
    /\ parsed.ok
    /\ LET Again(text) ==
            [text |-> text, result |-> from_str(parsed.by, text)]
       IN  reparsed' = Again(ToString_(parsed.by, parsed.value))
    /\ pc' = "reparsed"
    /\ UNCHANGED <<input, parsed, command, config, family, kbd, layers, err,
                   next, output, call, ncalls, grid, flat, back>>

NextParser == ParseAccord \/ ParseMacro \/ Reformat

SpecParser == InitParser /\ [][NextParser]_vars

(***************************************************************************)
(* set_led of the families, driven by one call each.                       *)
(***************************************************************************)
\* LedColor and LedBacklightColor, as u8
LedColor == 1..7
LedBacklightColor == 0..7
White == 0

\* LedMode
LedMode ==
    {[mode |-> "Off", color |-> 0]}
        \cup [mode : {"Backlight"}, color : LedBacklightColor]
        \cup [mode : {"Shock", "Shock2", "Press"}, color : LedColor]

\* a code that treats white as one more backlight color
LedModeCodeWhiteAsColor(self) ==
    LET Code_(mode, color) == BitOr8(Shl8(color, 4), mode)
    IN  CASE self.mode = "Off" -> Code_(0, 0)
          [] self.mode = "Backlight" -> Code_(1, self.color)
          [] self.mode = "Shock" -> Code_(2, self.color)
          [] self.mode = "Shock2" -> Code_(3, self.color)
          [] self.mode = "Press" -> Code_(4, self.color)

\* LedMode::code
LedModeCode(self) ==
    LET Code_(mode, color) == BitOr8(Shl8(color, 4), mode)
    IN  CASE self.mode = "Off" -> Code_(0, 0)
          [] self.mode = "Backlight" /\ self.color = White -> Code_(5, 0)
          [] self.mode = "Backlight" -> Code_(1, self.color)
          [] self.mode = "Shock" -> Code_(2, self.color)
          [] self.mode = "Shock2" -> Code_(3, self.color)
          [] self.mode = "Press" -> Code_(4, self.color)

\* the result of a set_led call: Ok(()), Err(e) or a panic
LedOk(out) == [outcome |-> "Ok", err |-> "", output |-> out]
LedErr(e, out) == [outcome |-> "Err", err |-> e, output |-> out]
LedPanic(e, out) == [outcome |-> "Panic", err |-> e, output |-> out]

\* the arguments that LedArgs::try_parse_from rejects
NoLedMode == [mode |-> "Invalid", color |-> 0]

\* Keyboard884x::set_led
SetLed884x(layer, mode, out) ==
    IF mode = NoLedMode THEN LedErr("Invalid LED mode", out)
    ELSE IF ~(layer < 3) THEN LedErr("Layer must be 0-2", out)
    ELSE LedOk(SendMessage(
                   SendMessage(out, <<3, 254, 176, layer + 1, 8, 0, 5, 1, 0,
                                      LedModeCode(mode), 0, 52>>),
                   <<3, 253, 254, 255, 0, 61>>))

\* Keyboard8850_4x4::set_led: bail!
SetLed8850(out) ==
    LedErr("If you have a device which supports backlight LEDs, please let us know", out)

\* Keyboard8840::set_led: unimplemented!
SetLed8840(out) ==
    LedPanic("not implemented: If you have a device which supports backlight LEDs, please let us know", out)

\* Keyboard8842::set_led: todo!
SetLed8842(out) == LedPanic("not yet implemented: LEDs", out)

LedLayers == 0..3

InitLed ==
    /\ input = <<>>
    /\ parsed = NoParse
    /\ reparsed = NoReparse
    /\ command = "Led"
    /\ config = NoConfig
    /\ family \in {"884x", "8850", "8840", "8842"}
    /\ kbd = NoKbd
    /\ pc = "led"
    /\ layers = <<>>
    /\ err = ""
    /\ next = 0
    /\ output = <<>>
    /\ call \in [layer : LedLayers, mode : LedMode \cup {NoLedMode},
                 outcome : {"None"}]
    /\ ncalls = 0
    /\ grid = NoGrid
    /\ flat = <<>>
    /\ back = <<>>

\* the call of set_led on the keyboard of the family
SetLed ==
    /\ pc = "led"
    /\ LET Returned(r) ==
            /\ output' = r.output
            /\ err' = r.err
            /\ call' = [call EXCEPT !.outcome = r.outcome]
       IN  Returned(CASE family = "884x" ->
                            SetLed884x(call.layer, call.mode, output)
                      [] family = "8850" -> SetLed8850(output)
                      [] family = "8840" -> SetLed8840(output)
                      [] family = "8842" -> SetLed8842(output))
    /\ pc' = "done"
    /\ ncalls' = 1
    /\ UNCHANGED <<reparsed, input, parsed, command, config, family, kbd,
                   layers, next, grid, flat, back>>

NextLed == SetLed

SpecLed == InitLed /\ [][NextLed]_vars

(***************************************************************************)
(* Claims about the encoders.                                              *)
(***************************************************************************)
\* the last call bound a keyboard macro of at most max accords on an
\* accepted layer and key of the family f
KeyboardCall(f, max, id) ==
    /\ call.made
    /\ family = f
    /\ call.macro.kind = "Keyboard"
    /\ Len(call.macro.parts) <= max
    /\ call.layer <= 15
    /\ id.ok

\* byte j of the 884x binding packet the claim describes
Binding884xByte(j, id, layer, presses) ==
    LET n == Len(presses)
        count == IF n = 1 /\ presses[1].modifiers # {}
                          /\ presses[1].code = NoCode
                 THEN 0 ELSE n
        head == <<3, 254, id, layer + 1, 1, 0, 0, 0, 0, 0, count>>
    IN  IF j <= 11 THEN head[j]
        ELSE IF j > 11 + 2 * n THEN 0
        ELSE IF (j - 11) % 2 = 1
             THEN ModifiersAsU8(presses[(j - 10) \div 2].modifiers)
             ELSE CodeByte(presses[(j - 11) \div 2].code)

\* C1: Keyboard884x::bind_key for a keyboard macro of n <= 18 accords on
\* an accepted layer and key succeeds and emits exactly two packets: the
\* binding packet 03 fe key_id layer+1 01 00 00 00 00 00 count followed by
\* one (modifier byte, code byte) pair per accord in macro order, and the
\* finish packet 03 fd fe ff; count is n, or 0 for a single accord with
\* modifiers and no code. Ctrl+A on button 0, layer 0 gives
\* 03 fe 01 01 01 00 00 00 00 00 01 01 04.
C1_Bind884xKeyboardPackets ==
    KeyboardCall("884x", 18, ToKeyId884x(kbd, call.key)) =>
        /\ call.ok
        /\ Len(Emitted) = 2 * PacketSize
        /\ \A j \in 1..PacketSize :
              Packet(Emitted, 1)[j] =
                  Binding884xByte(j, ToKeyId884x(kbd, call.key).id,
                                  call.layer, call.macro.parts)
        /\ IsMessage(Packet(Emitted, 2), <<3, 253, 254, 255>>)
        /\ (call.layer = 0 /\ call.key = Button(0)
            /\ call.macro.parts = <<CtrlA>>) =>
              SubSeq(Emitted, 1, 13) =
                  <<3, 254, 1, 1, 1, 0, 0, 0, 0, 0, 1, 1, 4>>

\* C1 witness: a macro of 18 accords was bound by the 884x encoder
C1_Witness ==
    /\ KeyboardCall("884x", 18, ToKeyId884x(kbd, call.key))
    /\ Len(call.macro.parts) = 18
    /\ call.ok
    /\ Len(Emitted) = 2 * PacketSize

\* C2: Keyboard8890::bind_key for a keyboard macro of n <= 5 accords (on an
\* accepted layer and key) emits exactly n+3 packets: the start packet
\* 03 fe layer+1 01 01, then n+1 payload packets that all carry the key id,
\* the same header byte of kind 1 and the count n, with index bytes
\* 0,1,...,n (index 0 the empty placeholder, index i the modifier byte and
\* code of accord i), then the finish packet 03 aa aa.
C2_Bind8890KeyboardPackets ==
    KeyboardCall("8890", 5, ToKeyId8890(call.key)) =>
        LET presses == call.macro.parts
            n == Len(presses)
            id == ToKeyId8890(call.key).id
            header == Packet(Emitted, 2)[3]
        IN  /\ call.ok
            /\ Len(Emitted) = (n + 3) * PacketSize
            /\ IsMessage(Packet(Emitted, 1), <<3, 254, call.layer + 1, 1, 1>>)
            /\ header % 16 = 1
            /\ IsMessage(Packet(Emitted, 2), <<3, id, header, n, 0, 0, 0>>)
            /\ \A i \in 1..n :
                  IsMessage(Packet(Emitted, i + 2),
                            <<3, id, header, n, i,
                              ModifiersAsU8(presses[i].modifiers),
                              CodeByte(presses[i].code)>>)
            /\ IsMessage(Packet(Emitted, n + 3), <<3, 170, 170>>)
            /\ (call.layer = 0 /\ call.key = Button(0)
                /\ presses = <<CtrlA>>) =>
                  /\ SubSeq(Packet(Emitted, 2), 1, 4) = <<3, 1, 17, 1>>
                  /\ SubSeq(Packet(Emitted, 3), 1, 7) = <<3, 1, 17, 1, 1, 1, 4>>

\* C2 witness: a macro of 5 accords was bound by the 8890 encoder
C2_Witness ==
    /\ KeyboardCall("8890", 5, ToKeyId8890(call.key))
    /\ Len(call.macro.parts) = 5
    /\ call.ok
    /\ NumPackets(Emitted) = 8

IsStart8890(packet) == packet[1] = 3 /\ packet[2] = 254
IsFinish8890(packet) == packet[1] = 3 /\ packet[2] = 170 /\ packet[3] = 170

\* C3: in the packet stream of any sequence of bind_key calls on the 8890
\* encoder every start-binding packet is followed by its finish-binding
\* packet before any later start packet, whether the calls returned Ok or
\* an error.
C3_StartFinishPaired ==
    family = "8890" =>
        \A i \in 1..NumPackets(output) :
            IsStart8890(Packet(output, i)) =>
                \E j \in (i + 1)..NumPackets(output) :
                    /\ IsFinish8890(Packet(output, j))
                    /\ \A k \in (i + 1)..(j - 1) :
                          ~IsStart8890(Packet(output, k))

(***************************************************************************)
(* Claims about reorient_grid.                                             *)
(***************************************************************************)
\* the input cell (0-based) the claim places at output cell (r, c)
ClaimedCell(orientation, r, c, R, C) ==
    CASE orientation = "Normal" -> <<r, c>>
      [] orientation = "UpsideDown" -> <<R - r - 1, C - c - 1>>
      [] orientation = "Clockwise" -> <<c, R - r - 1>>
      [] orientation = "CounterClockwise" -> <<C - c - 1, r>>

\* C8: for a grid of the shape the dimension check requires reorient_grid
\* returns R*C items, output index r*C+c holding input cell (r,c) for
\* Normal, (R-r-1, C-c-1) for UpsideDown, (c, R-r-1) for Clockwise and
\* (C-c-1, r) for CounterClockwise; every input cell appears exactly once
\* and no cell outside the grid is read.
C8_ReorientGridBijection ==
    pc \in {"reoriented", "restored"} =>
        LET R == grid.rows
            C == grid.cols
        IN  /\ ~flat.panic
            /\ Len(flat.items) = R * C
            /\ \A r \in 0..(R - 1), c \in 0..(C - 1) :
                  LET cell == ClaimedCell(grid.orientation, r, c, R, C)
                  IN  /\ cell[1] \in 0..(Len(grid.data) - 1)
                      /\ cell[2] \in 0..(Len(grid.data[cell[1] + 1]) - 1)
                      /\ flat.items[r * C + c + 1] =
                            grid.data[cell[1] + 1][cell[2] + 1]
            /\ \A i \in 1..Len(grid.data) :
                  \A j \in 1..Len(grid.data[i]) :
                      Cardinality({k \in 1..Len(flat.items) :
                                      flat.items[k] = grid.data[i][j]}) = 1

\* C8 witness: the CounterClockwise case of test_reorient_grid
C8_Witness ==
    /\ pc = "reoriented"
    /\ grid.orientation = "CounterClockwise"
    /\ grid.rows = 2
    /\ grid.cols = 3
    /\ grid.data = <<(<<1, 2>>), <<3, 4>>, <<5, 6>>>>
    /\ flat.items = <<5, 3, 1, 6, 4, 2>>

\* C9: UpsideDown applied twice, and Clockwise followed by CounterClockwise
\* (or the reverse) with rows and columns swapped for the second step,
\* return the original grid.
C9_ReorientUndone ==
    pc = "restored" =>
        /\ ~back.panic
        /\ back.items = Flatten(grid.data, 1)

\* C9 witness: a 2x3 Clockwise grid was rotated and rotated back
C9_Witness ==
    /\ pc = "restored"
    /\ grid.orientation = "Clockwise"
    /\ grid.rows = 2
    /\ grid.cols = 3
    /\ flat.items = <<2, 4, 6, 1, 3, 5>>
    /\ back.items = <<1, 2, 3, 4, 5, 6>>

(***************************************************************************)
(* Claims about Config::render and the upload run.                         *)
(***************************************************************************)
RenderErrors ==
    {ErrRows, ErrColumns, ErrKnobs, ErrModifiers, ErrMove, ErrDelays,
     ErrDelayMax, ErrDelayFirst}

ValidationErrors == RenderErrors \cup {"macro sequence is too long"}

Rendered == pc # "start"
RenderRejected == pc = "failed" /\ err \in RenderErrors
RenderAccepted == Rendered /\ ~RenderRejected

\* C4: in an upload run every validation error, the sequence-length cap
\* included, is reported before the first packet of the run is sent: a run
\* that failed with a validation error has sent nothing.
C4_ValidationBeforePackets ==
    (command = "Upload" /\ pc = "failed" /\ err \in ValidationErrors)
        => output = <<>>

\* the delay rule as the claim words it: no Delay part, or exactly one, in
\* first place, of at most 6000 ms
DelayRuleMet(m) ==
    m.kind = "Keyboard" =>
        LET delays == {k \in 1..Len(m.parts) : m.parts[k].type = "Delay"}
        IN  \/ delays = {}
            \/ delays = {1} /\ m.parts[1].ms <= 6000

\* C5: render accepts a config only if every keyboard macro on a button or
\* a knob action meets the delay rule (so more than one delay, a delay that
\* is not first and a leading delay of 6001 ms or more are rejected), and it
\* reports a delay error only for a macro that breaks the rule (so a leading
\* delay of exactly 6000 ms is accepted).
C5_DelayRule ==
    Rendered =>
        /\ RenderAccepted => \A m \in MacrosOf(config) : DelayRuleMet(m)
        /\ err \in {ErrDelays, ErrDelayMax, ErrDelayFirst}
            => \E m \in MacrosOf(config) : ~DelayRuleMet(m)

C5_Witness ==
    /\ RenderAccepted
    /\ \E m \in MacrosOf(config) :
          /\ m.kind = "Keyboard"
          /\ m.parts[1].type = "Delay"
          /\ m.parts[1].ms = 6000

ButtonMacros(cfg) ==
    UNION {ButtonMacrosOf(cfg.layers[i]) : i \in 1..Len(cfg.layers)}

\* a key part other than the first key part carries modifiers (delays are
\* not key parts)
NonFirstKeyModified(m) ==
    /\ m.kind = "Keyboard"
    /\ \E k \in 1..Len(m.parts) :
          /\ m.parts[k].type = "Key"
          /\ m.parts[k].modifiers # {}
          /\ \E j \in 1..(k - 1) : m.parts[j].type = "Key"

Limited(cfg) == (cfg.rows = 1 \/ cfg.columns = 1) /\ cfg.knobs = 1

\* the config whose only layer binds "a,alt-b" to its first button
OnlyAAltB(cfg) ==
    LET orows == IF IsHorizontal(cfg.orientation) THEN cfg.rows
                 ELSE cfg.columns
        ocols == IF IsHorizontal(cfg.orientation) THEN cfg.columns
                 ELSE cfg.rows
    IN  cfg.layers = <<LayerWith(orows, ocols, cfg.knobs, 1,
                                 MacroKeyboard(<<PlainA, AltB>>), NoMacro)>>

\* C6: with (rows = 1 or columns = 1) and knobs = 1, render rejects a config
\* in which some button's keyboard macro has a modified key part after its
\* first key part; the modifier error is reported in no other case; "a,alt-b"
\* fails with it on a one-row layout with one knob and passes on a layout of
\* two rows and two or more columns.
C6_ModifierRule ==
    Rendered =>
        /\ (Limited(config)
            /\ \E m \in ButtonMacros(config) : NonFirstKeyModified(m))
            => RenderRejected
        /\ err = ErrModifiers
            => /\ Limited(config)
               /\ \E m \in ButtonMacros(config) : NonFirstKeyModified(m)
        /\ OnlyAAltB(config)
            => IF Limited(config)
               THEN RenderRejected /\ err = ErrModifiers
               ELSE RenderAccepted

C6_Witness ==
    /\ RenderRejected
    /\ err = ErrModifiers
    /\ OnlyAAltB(config)
    /\ config.rows = 1
    /\ config.knobs = 1

MoveOutOfRange(m) ==
    /\ m.kind = "Mouse"
    /\ m.action.type = "Move"
    /\ ~(/\ m.action.dx \in -128..127
         /\ m.action.dy \in -128..127)

\* C7: render rejects a config that binds, to a button or a knob action, a
\* mouse Move with dx or dy outside -128..127, and reports the range error
\* only for such a Move: dx = 127 with dy = -128 pass; dx = 128 and
\* dy = -129 are rejected.
C7_MoveRange ==
    Rendered =>
        /\ (\E m \in MacrosOf(config) : MoveOutOfRange(m)) => RenderRejected
        /\ err = ErrMove => \E m \in MacrosOf(config) : MoveOutOfRange(m)

C7_Witness ==
    /\ RenderAccepted
    /\ \E i \in 1..Len(config.layers) :
       \E m \in KnobMacrosOf(config.layers[i]) :
          /\ m.kind = "Mouse"
          /\ m.action.type = "Move"
          /\ m.action.dx = 127
          /\ m.action.dy = -128

\* the shape the claim requires of a layer as read
ShapeOk(cfg, layer) ==
    /\ Len(layer.buttons) =
          (IF cfg.orientation \in {"Normal", "UpsideDown"}
           THEN cfg.rows ELSE cfg.columns)
    /\ \A r \in 1..Len(layer.buttons) :
          Len(layer.buttons[r]) =
              (IF cfg.orientation \in {"Normal", "UpsideDown"}
               THEN cfg.columns ELSE cfg.rows)
    /\ Len(layer.knobs) = cfg.knobs

\* C10: render fails, with no FlatLayer produced, unless every layer has the
\* shape the orientation requires and exactly `knobs` knobs; on success there
\* is one FlatLayer per input layer, in order, each with rows*columns
\* buttons and `knobs` knobs, holding the macros of that input layer.
C10_DimensionCheck ==
    Rendered =>
        /\ RenderRejected => layers = <<>>
        /\ (\E i \in 1..Len(config.layers) : ~ShapeOk(config, config.layers[i]))
            => RenderRejected
        /\ RenderAccepted =>
            /\ Len(layers) = Len(config.layers)
            /\ \A i \in 1..Len(layers) :
                  /\ Len(layers[i].buttons) = config.rows * config.columns
                  /\ Len(layers[i].knobs) = config.knobs
                  /\ {layers[i].buttons[b] : b \in 1..Len(layers[i].buttons)}
                        = ButtonMacrosOf(config.layers[i])
                  /\ {layers[i].knobs[k] : k \in 1..Len(layers[i].knobs)}
                        = {config.layers[i].knobs[k] :
                              k \in 1..Len(config.layers[i].knobs)}

C10_Witness ==
    /\ RenderAccepted
    /\ Len(layers) = 2
    /\ config.orientation = "Clockwise"
    /\ config.rows # config.columns
    /\ layers[1] # layers[2]

(***************************************************************************)
(* Claims about the key identity mappers.                                  *)
(***************************************************************************)
\* the macro of the last call passes the checks of the encoder that do not
\* concern the key
MacroPasses(max) ==
    /\ call.macro.kind = "Keyboard" => Len(call.macro.parts) <= max
    /\ call.macro.kind = "Mouse" =>
          ~(call.macro.action.type = "Click" /\ call.macro.action.buttons = {})

\* a call of the encoder f whose layer and macro are accepted
KeyCall(f, max) ==
    /\ call.made
    /\ family = f
    /\ call.layer <= 15
    /\ MacroPasses(max)

AcceptedKey8890(key) ==
    \/ key.type = "Button" /\ key.n \in 0..11
    \/ key.type = "Knob" /\ key.n \in 0..2

ClaimedId8890(key) ==
    IF key.type = "Button" THEN key.n + 1
    ELSE 13 + 3 * key.n
         + (CASE key.action = RotateCCW -> 0
              [] key.action = Press -> 1
              [] key.action = RotateCW -> 2)

\* C11: Keyboard8890::to_key_id gives Button(n) the id n+1 for n in 0..11
\* and Knob(k, action) the id 13 + 3k + offset (ccw 0, press 1, cw 2) for
\* k in 0..2, and an error for n >= 12 and for k >= 3; the ids of the
\* accepted keys are pairwise distinct and lie in 1..21. The id is read from
\* the payload packet of the binding.
C11_ToKeyId8890 ==
    KeyCall("8890", 5) =>
          IF AcceptedKey8890(call.key)
          THEN /\ call.ok
               /\ Packet(Emitted, 2)[2] = ClaimedId8890(call.key)
               /\ Packet(Emitted, 2)[2] \in 1..21
               /\ \A other \in KeyInputs :
                     (ToKeyId8890(other).ok
                      /\ ToKeyId8890(other).id = Packet(Emitted, 2)[2])
                        => other = call.key
          ELSE /\ ~call.ok
               /\ call.err \in {"invalid key index", "invalid knob index"}

\* C11 witness: the last action of the last knob was bound with id 21
C11_Witness ==
    /\ KeyCall("8890", 5)
    /\ call.key = Knob(2, RotateCW)
    /\ call.ok
    /\ Packet(Emitted, 2)[2] = 21

OutsideCapacity884x(self, key) ==
    \/ key.type = "Button" /\ key.n >= self.buttons
    \/ key.type = "Knob" /\ key.n >= self.knobs

\* C12: on a Keyboard884x built by new(buttons, knobs), to_key_id returns an
\* error for every Button(n) with n >= buttons and every Knob(k, action)
\* with k >= knobs.
C12_OutsideCapacityRejected ==
    (KeyCall("884x", 18) /\ OutsideCapacity884x(kbd, call.key)) =>
        /\ ~call.ok
        /\ call.err \in {"invalid key index", "invalid knob index"}

\* C13: Keyboard884x::new rejects 4 knobs with more than 12 buttons and
\* accepts 4 knobs with 12 buttons; on a keyboard with 4 knobs the three
\* actions of the fourth knob, Knob(3, action), are bound with the ids
\* 13, 14, 15 (13 + action offset) and Button(12..14) is rejected.
C13_FourthKnob ==
    /\ (family = "884x" /\ pc # "new" /\ kbd.knobs = 4) =>
          (pc = "failed" <=> kbd.buttons > 12)
    /\ (KeyCall("884x", 18) /\ kbd.knobs = 4) =>
          /\ (call.key.type = "Knob" /\ call.key.n = 3) =>
                /\ call.ok
                /\ Packet(Emitted, 1)[3] = 13 + call.key.action
          /\ (call.key.type = "Button" /\ call.key.n \in 12..14) =>
                ~call.ok

(***************************************************************************)
(* Claims about the checks of bind_key.                                    *)
(***************************************************************************)
\* C14: in every encoder (8890, 884x, 8850_4x4, 8840, Keyboard) bind_key
\* returns 'invalid layer index' for every layer above 15 and appends no
\* packet for that call; for the layers 0..15 it never returns that error
\* and binds a valid key and macro.
C14_LayerIndex ==
    call.made =>
        /\ call.layer > 15 =>
              /\ ~call.ok
              /\ call.err = "invalid layer index"
              /\ Emitted = <<>>
        /\ call.layer <= 15 =>
              /\ call.err # "invalid layer index"
              /\ (call.key = Button(0) /\ MacroPasses(5)) =>
                    call.ok /\ Emitted # <<>>

\* C14 witness: after a binding that sent packets, a call with layer 16 was
\* rejected and sent nothing
C14_Witness ==
    /\ call.made
    /\ family = "8840"
    /\ call.layer = 16
    /\ call.before > 0
    /\ ~call.ok
    /\ Emitted = <<>>

\* the maximum number of key parts of a keyboard macro per encoder
FamilyMaximum(f) == IF f \in {"884x", "8850"} THEN 18 ELSE 5

\* C15: bind_key (on an accepted layer and key) accepts a keyboard macro
\* exactly when its number of key parts is at most the family maximum, 5 for
\* Keyboard8890 and 18 for Keyboard884x and Keyboard8850_4x4, and rejects a
\* longer one with 'macro sequence is too long'.
C15_SequenceLength ==
    (call.made /\ call.macro.kind = "Keyboard" /\ call.layer <= 15
     /\ call.key \in FewKeys) =>
        IF Len(call.macro.parts) <= FamilyMaximum(family)
        THEN call.ok
        ELSE ~call.ok /\ call.err = "macro sequence is too long"

RECURSIVE Entries8850(_, _)
\* one entry per modifier and one per key part
Entries8850(parts, i) ==
    IF i > Len(parts) THEN 0
    ELSE Cardinality(parts[i].modifiers) + 1 + Entries8850(parts, i + 1)

\* the length bind_key compares with the family maximum
CountedLength(f, parts) ==
    IF f = "8850" THEN Entries8850(parts, 1) ELSE Len(parts)

\* C15 as amended: Keyboard8890 accepts 5 key parts and rejects 6 or more,
\* Keyboard884x accepts 18 and rejects 19 or more; Keyboard8850_4x4 counts
\* one entry per modifier plus one per key part and accepts exactly when
\* that count is at most 18; each rejects with 'macro sequence is too long'.
C15_SequenceLengthAmended ==
    (call.made /\ call.macro.kind = "Keyboard" /\ call.layer <= 15
     /\ call.key \in FewKeys) =>
        IF CountedLength(family, call.macro.parts) <= FamilyMaximum(family)
        THEN call.ok
        ELSE ~call.ok /\ call.err = "macro sequence is too long"

\* C15 witness: Keyboard8850_4x4 rejected a macro of at most 18 key parts
\* whose modifiers take it over 18 entries
C15_Witness ==
    /\ call.made
    /\ family = "8850"
    /\ call.macro.kind = "Keyboard"
    /\ Len(call.macro.parts) <= 18
    /\ Entries8850(call.macro.parts, 1) > 18
    /\ ~call.ok
    /\ call.err = "macro sequence is too long"

(***************************************************************************)
(* Claims about the payload bytes.                                         *)
(***************************************************************************)
\* the packet of the last call that carries the macro, and the position of
\* its first macro byte after the key id and header bytes
MacroPacket == IF family = "8890" THEN Packet(Emitted, 2) ELSE Packet(Emitted, 1)

\* C16: for a media macro Keyboard8890 and Keyboard884x write the 16-bit
\* usage code little-endian in two adjacent payload bytes, code mod 256 then
\* code div 256, also for codes above 0xFF, so low + 256 * high is the code;
\* VolumeUp (0xE9) gives e9 00.
C16_MediaLittleEndian ==
    (call.made /\ call.ok /\ call.macro.kind = "Media"
     /\ family \in {"8890", "884x"}) =>
        LET at == IF family = "8890" THEN 4 ELSE 12
            low == MacroPacket[at]
            high == MacroPacket[at + 1]
            code == call.macro.code
        IN  /\ low = code % 256
            /\ high = code \div 256
            /\ low + 256 * high = code
            /\ code = 233 => (low = 233 /\ high = 0)

\* C16 witness: a code above 0xFF with a non-zero low byte was bound
C16_Witness ==
    /\ call.made
    /\ call.ok
    /\ family = "884x"
    /\ call.macro.kind = "Media"
    /\ call.macro.code = 572
    /\ MacroPacket[12] = 60
    /\ MacroPacket[13] = 2

\* a byte read back as a signed 8-bit value
Signed8(b) == IF b >= 128 THEN b - 256 ELSE b

\* the two's-complement byte the spec gives for a delta in -128..127
ClaimedByte(delta) == IF delta < 0 THEN delta + 256 ELSE delta

ClaimedMask(buttons) ==
    (IF "Left" \in buttons THEN 1 ELSE 0)
    + (IF "Right" \in buttons THEN 2 ELSE 0)
    + (IF "Middle" \in buttons THEN 4 ELSE 0)

\* the position of the button mask in the packet that carries a mouse macro;
\* dx, dy and the wheel delta follow it
MaskAt == IF family = "8890" THEN 4 ELSE 13

MouseCall(types) ==
    /\ call.made
    /\ call.ok
    /\ family \in {"8890", "884x"}
    /\ call.macro.kind = "Mouse"
    /\ call.macro.action.type \in types

DeltaWritten(delta, byte) ==
    delta \in -128..127 => (byte = ClaimedByte(delta) /\ Signed8(byte) = delta)

\* C17: for mouse Move, Drag and Wheel/Scroll every delta in -128..127 is
\* written as one two's-complement byte (-5 becomes 0xfb, 10 becomes 0x0a),
\* so reading the byte back as a signed 8-bit value returns the delta; Move
\* carries button mask 0 and Drag carries its button bit-mask.
C17_SignedDeltas ==
    /\ MouseCall({"Move", "Drag"}) =>
          /\ DeltaWritten(call.macro.action.dx, MacroPacket[MaskAt + 1])
          /\ DeltaWritten(call.macro.action.dy, MacroPacket[MaskAt + 2])
          /\ call.macro.action.dx = 10 => MacroPacket[MaskAt + 1] = 10
          /\ call.macro.action.dy = -5 => MacroPacket[MaskAt + 2] = 251
          /\ MacroPacket[MaskAt] =
                IF call.macro.action.type = "Move" THEN 0
                ELSE ClaimedMask(call.macro.action.buttons)
    /\ MouseCall({"Scroll", "Wheel"}) =>
          DeltaWritten(call.macro.action.dx, MacroPacket[MaskAt + 3])

\* C17 witness: a drag with both extreme deltas and two buttons was bound
C17_Witness ==
    /\ MouseCall({"Drag"})
    /\ call.macro.action.dx = -128
    /\ call.macro.action.dy = 127
    /\ MacroPacket[MaskAt] = 6
    /\ MacroPacket[MaskAt + 1] = 128
    /\ MacroPacket[MaskAt + 2] = 127

\* C18: a Drag whose dx or dy lies outside -128..127 is rejected, by
\* Config::render or by bind_key, and is never encoded into a packet: a
\* bind_key call that is made with such a Drag fails and sends nothing.
C18_DragRange ==
    (call.made /\ family \in {"8890", "884x"}
     /\ call.macro.kind = "Mouse" /\ call.macro.action.type = "Drag"
     /\ ~(/\ call.macro.action.dx \in -128..127
          /\ call.macro.action.dy \in -128..127)) =>
        (~call.ok /\ Emitted = <<>>)

(***************************************************************************)
(* Claims about the parsers.                                               *)
(***************************************************************************)
\* the texts of the grammar of a mouse action: an optional modifier and a
\* dash, then buttons joined by + or a wheel direction
MouseActionTexts ==
    LET clicks == {<<"c", "l", "i", "c", "k">>, <<"r", "c", "l", "i", "c", "k">>}
        actions == clicks \cup {a \o <<"+">> \o b : a, b \in clicks}
                      \cup {<<"w", "h", "e", "e", "l", "u", "p">>}
    IN  actions \cup {<<"c", "t", "r", "l">> \o <<"-">> \o a : a \in actions}

\* a bare alphabetic word that is an alias of a media code
BareMediaAlias(s) ==
    /\ s # <<>>
    /\ \A i \in 1..Len(s) : s[i] \in Letters
    /\ MediaCodeFromStr(s) # 0

\* C19: the macro parser tries mouse event, then media, then keyboard
\* sequence: a text that is a valid mouse action yields Macro::Mouse, and a
\* bare word that is a media alias yields Macro::Media of that code, also
\* when the word is a key name (pause); neither is returned as a
\* keyboard sequence.
C19_ParserOrder ==
    (pc = "parsed" /\ parsed.by = "macro") =>
        /\ input \in MouseActionTexts =>
              (parsed.ok /\ parsed.value.kind = "Mouse")
        /\ BareMediaAlias(input) =>
              (parsed.ok /\ parsed.value = MacroMedia(MediaCodeFromStr(input)))
        /\ (parsed.ok /\ parsed.value.kind = "Keyboard") =>
              (input \notin MouseActionTexts /\ ~BareMediaAlias(input))

\* C19 witness: pause, which is a key name too, was parsed as a media code
C19_Witness ==
    /\ pc = "parsed"
    /\ parsed.by = "macro"
    /\ input = <<"p", "a", "u", "s", "e">>
    /\ WellKnownCodeFromStr(input) = 72
    /\ parsed.ok
    /\ parsed.value = MacroMedia(177)

\* some suffix of the text, which is not the whole text
IsRemainderOf(rest, s) ==
    \E k \in 1..Len(s) : rest = SubSeq(s, k + 1, Len(s))

\* C20: from_str returns a value only when the parser consumed the entire
\* input: a text with input left after a match is an error that carries the
\* unparsed remainder, and <23>a, a+, a1 and !a are errors for an accord.
C20_WholeInput ==
    pc = "parsed" =>
        LET r == IF parsed.by = "accord" THEN accord(input) ELSE macro(input)
        IN  /\ parsed.ok => (r.ok /\ r.rest = <<>>)
            /\ (r.ok /\ r.rest # <<>>) =>
                  /\ ~parsed.ok
                  /\ parsed.input = r.rest
                  /\ IsRemainderOf(parsed.input, input)
            /\ (parsed.by = "accord"
                /\ input \in {<<"<", "2", "3", ">", "a">>, <<"a", "+">>, <<"a", "1">>, <<"!", "a">>}) => ~parsed.ok
            /\ (parsed.by = "accord" /\ input = <<"a", "+">>) =>
                  parsed.input = <<"+">>
            /\ (parsed.by = "accord" /\ input = <<"!", "a">>) =>
                  parsed.input = <<"a">>

\* C20 witness: the accord <23>a was refused with its remainder
C20_Witness ==
    /\ pc = "parsed"
    /\ parsed.by = "accord"
    /\ input = <<"<", "2", "3", ">", "a">>
    /\ ~parsed.ok
    /\ parsed.input = <<"2", "3", ">", "a">>

\* C21: for every Accord and Macro the parser can produce, formatting the
\* value and parsing the text again gives back the same value.
C21_RoundTrip ==
    pc = "reparsed" =>
        /\ reparsed.result.ok
        /\ reparsed.result.value = parsed.value

\* the codes of the serialized names of MediaCode that are the text s in
\* some letter case
MediaCodesNamed(s) ==
    {MediaCodeNames[i][2] : i \in {j \in 1..Len(MediaCodeNames) :
                                     ToLower(MediaCodeNames[j][1]) = ToLower(s)}}

\* C22: every textual alias of every MediaCode, given as the whole macro
\* text in any letter case, parses to Macro::Media of that code, so that
\* every MediaCode can be written by at least one of its aliases.
C22_MediaAliases ==
    (pc = "parsed" /\ parsed.by = "macro") =>
        \A code \in MediaCodesNamed(input) :
            parsed.ok /\ parsed.value = MacroMedia(code)

(***************************************************************************)
(* Claims about the LEDs.                                                  *)
(***************************************************************************)
\* the number of each mode and of each color, as the claim gives them
ClaimedLedCode(m) ==
    LET number == "Off" :> 0 @@ "Backlight" :> 1 @@ "Shock" :> 2 @@
                  "Shock2" :> 3 @@ "Press" :> 4
    IN  IF m.mode = "Backlight" /\ m.color = 0 THEN 5
        ELSE 16 * m.color + number[m.mode]

\* the LED call of the 884x family returned Ok
LedSent == pc = "done" /\ family = "884x" /\ call.outcome = "Ok"

\* C23: LedMode::code() is (color << 4) | mode: the low nibble is the mode
\* (Off 0, Backlight 1, Shock 2, Shock2 3, Press 4, white backlight 5), the
\* high nibble the color 1..7 (0 for Off and white backlight), Backlight(Blue)
\* is 0x61 and Press(Purple) 0x74, and distinct modes have distinct codes:
\* the code byte that set_led sends is the code of no other mode.
C23_LedCode ==
    LedSent =>
        /\ output[10] = ClaimedLedCode(call.mode)
        /\ output[10] % 16 \in 0..5
        /\ output[10] \div 16 = (IF call.mode.mode = "Off" THEN 0 ELSE call.mode.color)
        /\ call.mode = [mode |-> "Backlight", color |-> 6] => output[10] = 97
        /\ call.mode = [mode |-> "Press", color |-> 7] => output[10] = 116
        /\ \A other \in LedMode : LedModeCode(other) = output[10] => other = call.mode

C23_Witness ==
    /\ LedSent
    /\ call.mode = [mode |-> "Backlight", color |-> White]
    /\ output[10] = 5

\* C24: on every family without backlight support (8840, 8842, 8850 4x4)
\* set_led returns an explicit error to its caller and sends no packet; it
\* never reports success.
C24_LedUnsupported ==
    (pc = "done" /\ family \in {"8840", "8842", "8850"}) =>
        /\ call.outcome = "Err"
        /\ err # ""
        /\ output = <<>>

(***************************************************************************)
(* Claims about render and the key ids, continued.                         *)
(***************************************************************************)
\* C25: the single-row/single-knob restriction covers the keyboard macros
\* bound to knob actions too: with (rows = 1 or columns = 1) and knobs = 1,
\* render rejects a config in which a knob's ccw, press or cw keyboard macro
\* has a non-first key part that carries modifiers.
C25_KnobModifierRule ==
    (/\ Rendered
     /\ Limited(config)
     /\ \E i \in 1..Len(config.layers) :
            \E m \in KnobMacrosOf(config.layers[i]) : NonFirstKeyModified(m))
        => RenderRejected

\* C26: on every Keyboard884x accepted by new(buttons, knobs), every key the
\* upload loop can produce, Button(n) with n < buttons and Knob(k, action)
\* with k < knobs, maps to a key id without error; in particular the four
\* knobs 0..3 of a keyboard with 12 buttons and 4 knobs can be bound.
C26_KeysWithinCapacity ==
    (KeyCall("884x", 18) /\ ~OutsideCapacity884x(kbd, call.key)) => call.ok

\* C27: on every Keyboard884x accepted by new, to_key_id never gives the same
\* id to two different keys: the id written for an accepted key is not zero
\* and is the id of no other accepted key.
C27_KeyIdsDistinct ==
    (KeyCall("884x", 18) /\ call.ok) =>
        /\ Packet(Emitted, 1)[3] # 0
        /\ \A other \in KeyInputs :
              (ToKeyId884x(kbd, other).ok
               /\ ToKeyId884x(kbd, other).id = Packet(Emitted, 1)[3])
                 => other = call.key

(***************************************************************************)
(* Claims about the output of bind_key, continued.                         *)
(***************************************************************************)
\* C28: when bind_key returns an error (invalid layer, invalid key or knob
\* index, sequence too long, empty button set for a click), it has appended
\* nothing to the output, for every family encoder.
C28_ErrorAppendsNothing ==
    (call.made /\ ~call.ok) => Emitted = <<>>

\* C29: in the 8890 payload packets the header byte ((layer+1) << 4) | kind,
\* computed in 8 bits, equals 16*(layer+1) + kind for every accepted layer
\* 0..15 and every kind 1, 2, 3; the high nibble identifies the layer and two
\* accepted layers never give the same header byte.
C29_HeaderByte ==
    (KeyCall("8890", 5) /\ call.ok) =>
        /\ Packet(Emitted, 2)[3] = 16 * (call.layer + 1) + MacroKind(call.macro)
        /\ \A other \in 0..15 :
              Header8890(other, MacroKind(call.macro)) = Packet(Emitted, 2)[3]
                 => other = call.layer

(***************************************************************************)
(* Claims about the parsers, continued.                                    *)
(***************************************************************************)
\* the text is a valid accord that holds no comma
PlainAccord(s) ==
    /\ \A i \in 1..Len(s) : s[i] # ","
    /\ from_str("accord", s).ok

\* C30: every comma-separated list of two or more valid accords parses to
\* Macro::Keyboard holding those accords in order, also when the first
\* accord is a key name that is a media alias too ("pause,a"): a partial
\* match by a higher-priority alternative does not make it fail.
C30_KeyboardList ==
    (pc = "parsed" /\ parsed.by = "macro") =>
        \A k \in 1..Len(input) :
            (/\ input[k] = ","
             /\ PlainAccord(SubSeq(input, 1, k - 1))
             /\ PlainAccord(SubSeq(input, k + 1, Len(input)))) =>
                /\ parsed.ok
                /\ parsed.value =
                      MacroKeyboard(
                          <<from_str("accord", SubSeq(input, 1, k - 1)).value,
                            from_str("accord",
                                     SubSeq(input, k + 1, Len(input))).value>>)

====
